---- MODULE Spec2Model ----
(***************************************************************************)
(* A model of the configuration-language front end of config_parser.py:    *)
(* Lexer.tokenize (one action per iteration of its main loop) and          *)
(* Parser.parse (a recursive-descent parser, modelled with an explicit     *)
(* call stack, one action per control point of the code).                  *)
(*                                                                         *)
(* Python values are tagged records; a Python str is the sequence of its   *)
(* characters; offsets are 0-based as in the code, so the character at     *)
(* offset p of text is text[p + 1].                                        *)
(***************************************************************************)
EXTENDS Integers, Sequences, FiniteSets, TLC

VARIABLES
    lex_text,     \* Lexer.text
    lex_pos,      \* Lexer.pos
    lex_tokens,   \* Lexer.tokens
    lex_pc,       \* "loop" | "returned" | "raised"
    lex_err,      \* the lexical error raised: [msg, position]
    source,       \* the program the parser's tokens were rendered from
    tokens,       \* Parser.tokens
    pos,          \* Parser.pos
    constants,    \* Parser.constants
    result,       \* the local `result` of Parser.parse
    stack,        \* the callers waiting for parse_value to return
    val,          \* the value parse_value / parse_array / parse_dict returns
    pc,           \* the parser's control point
    ret,          \* what Parser.parse returned
    err,          \* the syntax error raised: [msg, position]
    waiting,      \* a second Parser instance, while the first one is stepped
    main_pc,      \* the statement of main about to run
    stderr,       \* the lines main has printed to standard error
    exit_status,  \* the status the process has exited with (-1: still running)
    toml_output,  \* main's local `toml_output`
    output_file   \* what is in the file at args.output

lex_vars == <<lex_text, lex_pos, lex_tokens, lex_pc, lex_err>>
parser_vars == <<source, tokens, pos, constants, result, stack, val, pc, ret, err>>
\* What belongs to the code that calls the lexer and the parser.
main_vars == <<main_pc, stderr, exit_status, toml_output, output_file>>
caller_vars == <<waiting, main_pc, stderr, exit_status, toml_output, output_file>>
vars == <<lex_text, lex_pos, lex_tokens, lex_pc, lex_err,
          source, tokens, pos, constants, result, stack, val, pc, ret, err, waiting,
          main_pc, stderr, exit_status, toml_output, output_file>>

----------------------------------------------------------------------------
(* Bounds of the checked inputs. *)

\* Longest text of number characters given to the lexer.
MaxNumLen == 5
\* Longest text of string characters given to the lexer.
MaxStrLen == 5
\* Longest text over the lexer's whole alphabet (in lexemes).
MaxMixLen == 2
\* Longest arbitrary token sequence (before EOF) given to the parser.
MaxRaw == 3
\* Most top-level items (let declarations, root values) of a rendered program.
MaxItems == 4
\* Most elements of a rendered array literal / entries of a dict literal.
MaxWidth == 3

----------------------------------------------------------------------------
(* Python values. *)

\* A value is a record with one field, named after its Python type.
None == [none |-> 0]
PyInt(n) == [int |-> n]
\* A float is kept as the exact decimal m * 10^e it was written as, normalised.
PyFloat(m, e) == [float |-> <<m, e>>]
PyStr(s) == [str |-> s]
PyBool(b) == [bool |-> b]
PyList(xs) == [list |-> xs]
\* A dict is the sequence of its (key, value) pairs in insertion order.
PyDict(es) == [dict |-> es]
IsKind(v, k) == DOMAIN v = {k}

S_true == <<"t", "r", "u", "e">>
S_false == <<"f", "a", "l", "s", "e">>
S_array == <<"a", "r", "r", "a", "y">>
S_let == <<"l", "e", "t">>

\* Token(type, value, position)
Token(type, value, position) ==
    [type |-> type, value |-> value, position |-> position]

----------------------------------------------------------------------------
(* Characters. *)

Digits == {"0", "1", "2", "3", "4", "5", "6", "7", "8", "9"}
Lower == {"a", "b", "c", "d", "e", "f", "g", "h", "i", "j", "k", "l", "m",
          "n", "o", "p", "q", "r", "s", "t", "u", "v", "w", "x", "y", "z"}
Upper == {"A", "B", "C", "D", "E", "F", "G", "H", "I", "J", "K", "L", "M",
          "N", "O", "P", "Q", "R", "S", "T", "U", "V", "W", "X", "Y", "Z"}
Spaces == {" ", "\t", "\n"}

\* str.isdigit, str.isspace, str.isalnum on the characters of the model.
isdigit(c) == c \in Digits
isspace(c) == c \in Spaces
\* A letter outside ASCII: alphanumeric for str.isalnum, not for the a-z tests.
OtherLetters == {"é"}
isalnum(c) == c \in Digits \cup Lower \cup Upper \cup OtherLetters
\* The identifier tests of read_identifier and of tokenize's last branch.
IsIdentStart(c) == c = "_" \/ c \in Upper \/ c \in Lower
IsIdentChar(c) == c = "_" \/ c \in Lower \/ c \in Upper \/ c \in Digits

\* Lexer.peek(offset) at cursor p: the character, or NoChar for None.
NoChar == ""
peek_char(text, p) == IF p >= Len(text) THEN NoChar ELSE text[p + 1]

\* text[a:b]
Slice(text, a, b) == IF b <= a THEN <<>> ELSE SubSeq(text, a + 1, b)

\* Lexer.skip_whitespace: the cursor after the blanks at p.
RECURSIVE skip_whitespace(_, _)
skip_whitespace(text, p) ==
    IF p < Len(text) /\ isspace(text[p + 1])
    THEN skip_whitespace(text, p + 1) ELSE p

\* The loops `while self.peek() and self.peek().isdigit(): self.advance()`.
RECURSIVE skip_digits(_, _)
skip_digits(text, p) ==
    IF p < Len(text) /\ isdigit(text[p + 1])
    THEN skip_digits(text, p + 1) ELSE p

LexError(msg, p) == [ok |-> FALSE, msg |-> msg, pos |-> p, str |-> <<>>]
LexOk(p, s) == [ok |-> TRUE, msg |-> "", pos |-> p, str |-> s]

----------------------------------------------------------------------------
(* Lexer: the readers. Each returns [ok, pos, str, msg]: the cursor it     *)
(* leaves and what it read, or the error it raises and the cursor there.   *)

\* A read_number without the test for digits after the exponent marker.
read_number_any_exponent(text, p) ==
    LET p1 == IF peek_char(text, p) = "-" THEN p + 1 ELSE p
        p2 == skip_digits(text, p1)
        dot == peek_char(text, p2) = "."
        p3 == IF dot THEN p2 + 1 ELSE p2
        p4 == IF dot THEN skip_digits(text, p3) ELSE p3
        has_digits == p2 > p1 \/ p4 > p3
        exp == peek_char(text, p4) \in {"e", "E"}
        p5 == IF exp THEN p4 + 1 ELSE p4
        p6 == IF exp /\ peek_char(text, p5) \in {"-", "+"} THEN p5 + 1 ELSE p5
        p7 == IF exp THEN skip_digits(text, p6) ELSE p6
    IN  IF ~has_digits
        THEN LexError("Invalid number format: expected at least one digit", p4)
        ELSE LexOk(p7, Slice(text, p, p7))

\* Lexer.read_number from cursor p.
read_number(text, p) ==
    LET start_pos == p
        p1 == IF peek_char(text, p) = "-" THEN p + 1 ELSE p
        starts_with_dot == peek_char(text, p1) = "."
        p2 == skip_digits(text, p1)
        int_digits == p2 > p1
        dot == peek_char(text, p2) = "."
        p3 == IF dot THEN p2 + 1 ELSE p2
        frac_digits == dot /\ isdigit(peek_char(text, p3))
        p4 == IF frac_digits THEN skip_digits(text, p3) ELSE p3
        has_digits == int_digits \/ frac_digits
        exp == peek_char(text, p4) \in {"e", "E"}
        p5 == IF exp THEN p4 + 1 ELSE p4
        p6 == IF exp /\ peek_char(text, p5) \in {"-", "+"} THEN p5 + 1 ELSE p5
        p7 == IF exp THEN skip_digits(text, p6) ELSE p6
    IN  IF dot /\ ~frac_digits /\ starts_with_dot /\ ~has_digits
        THEN LexError("Invalid number format: expected digits after decimal point", p3)
        ELSE IF ~has_digits
        THEN LexError("Invalid number format: expected at least one digit", p4)
        ELSE IF exp /\ ~isdigit(peek_char(text, p6))
        THEN LexError("Invalid exponent in number: expected digits after 'e'", p6)
        ELSE LexOk(p7, Slice(text, start_pos, p7))

\* A loop that drops the backslash before a character that is no escape.
RECURSIVE read_string_loop_drop(_, _, _)
read_string_loop_drop(text, q, acc) ==
    IF q >= Len(text) THEN LexError("Unclosed string", Len(text))
    ELSE LET char == text[q + 1]
             next_char == peek_char(text, q + 1)
             q2 == IF q + 1 >= Len(text) THEN q + 1 ELSE q + 2
             this == CASE next_char = "n" -> "\n" [] next_char = "t" -> "\t"
                       [] OTHER -> next_char
         IN  IF char = "\"" THEN LexOk(q + 1, acc)
             ELSE IF char = "\\" THEN read_string_loop_drop(text, q2, Append(acc, this))
             ELSE read_string_loop_drop(text, q + 1, Append(acc, char))

\* A loop that returns what it read when the text ends before the quote.
RECURSIVE read_string_loop_to_end(_, _, _)
read_string_loop_to_end(text, q, acc) ==
    IF q >= Len(text) THEN LexOk(Len(text), acc)
    ELSE LET char == text[q + 1]
             q2 == IF q + 1 >= Len(text) THEN q + 1 ELSE q + 2
         IN  IF char = "\"" THEN LexOk(q + 1, acc)
             ELSE IF char = "\\"
             THEN read_string_loop_to_end(text, q2, Append(acc, peek_char(text, q + 1)))
             ELSE read_string_loop_to_end(text, q + 1, Append(acc, char))

\* The body of read_string's loop from cursor q with `result` so far.
RECURSIVE read_string_loop(_, _, _)
read_string_loop(text, q, acc) ==
    IF q >= Len(text) THEN LexError("Unclosed string", Len(text))
    ELSE LET char == text[q + 1]
             next_char == peek_char(text, q + 1)
             q2 == IF q + 1 >= Len(text) THEN q + 1 ELSE q + 2
         IN  IF char = "\"" THEN LexOk(q + 1, acc)
             ELSE IF char = "\\"
             THEN IF next_char = "n" THEN read_string_loop(text, q2, Append(acc, "\n"))
                  ELSE IF next_char = "t" THEN read_string_loop(text, q2, Append(acc, "\t"))
                  ELSE IF next_char = "\\" THEN read_string_loop(text, q2, Append(acc, "\\"))
                  ELSE IF next_char = "\"" THEN read_string_loop(text, q2, Append(acc, "\""))
                  ELSE read_string_loop(text, q2, acc \o <<"\\", next_char>>)
             ELSE read_string_loop(text, q + 1, Append(acc, char))

\* Lexer.read_string from cursor p.
read_string(text, p) ==
    IF peek_char(text, p) # "\"" THEN LexError("Expected string quote", p)
    ELSE read_string_loop(text, p + 1, <<>>)

\* The loop of read_identifier.
RECURSIVE skip_ident_chars(_, _)
skip_ident_chars(text, p) ==
    IF p < Len(text) /\ IsIdentChar(text[p + 1])
    THEN skip_ident_chars(text, p + 1) ELSE p

\* Lexer.read_identifier from cursor p.
read_identifier(text, p) ==
    IF ~IsIdentStart(peek_char(text, p))
    THEN LexError("Invalid identifier start", p)
    ELSE LET q == skip_ident_chars(text, p + 1)
         IN  LexOk(q, Slice(text, p, q))

\* The scan for "}" in tokenize's constant-reference branch.
RECURSIVE skip_to_brace(_, _)
skip_to_brace(text, p) ==
    IF p < Len(text) /\ text[p + 1] # "}"
    THEN skip_to_brace(text, p + 1) ELSE p

----------------------------------------------------------------------------
(* int(num_str) and float(num_str). *)

DigitValue(c) ==
    CASE c = "0" -> 0 [] c = "1" -> 1 [] c = "2" -> 2 [] c = "3" -> 3
      [] c = "4" -> 4 [] c = "5" -> 5 [] c = "6" -> 6 [] c = "7" -> 7
      [] c = "8" -> 8 [] c = "9" -> 9

RECURSIVE DigitsToInt(_)
DigitsToInt(ds) ==
    IF ds = <<>> THEN 0
    ELSE 10 * DigitsToInt(SubSeq(ds, 1, Len(ds) - 1)) + DigitValue(ds[Len(ds)])

\* int(s) for s = "-"? digit+
int_of(s) ==
    IF s[1] = "-" THEN 0 - DigitsToInt(Slice(s, 1, Len(s)))
    ELSE DigitsToInt(s)

\* The decimal m * 10^e without trailing zeros in m.
RECURSIVE Normalise(_, _)
Normalise(m, e) ==
    IF m = 0 THEN <<0, 0>>
    ELSE IF m % 10 = 0 THEN Normalise(m \div 10, e + 1)
    ELSE <<m, e>>

\* float(s) for a literal read_number accepts, as an exact decimal.
float_of(s) ==
    LET neg == s[1] = "-"
        b == IF neg THEN Slice(s, 1, Len(s)) ELSE s
        i == skip_digits(b, 0)
        dot == peek_char(b, i) = "."
        f0 == IF dot THEN i + 1 ELSE i
        f1 == skip_digits(b, f0)
        exp == f1 < Len(b)
        eneg == exp /\ peek_char(b, f1 + 1) = "-"
        e0 == IF exp /\ peek_char(b, f1 + 1) \in {"-", "+"} THEN f1 + 2 ELSE f1 + 1
        ev == IF exp THEN DigitsToInt(Slice(b, e0, Len(b))) ELSE 0
        mant == DigitsToInt(Slice(b, 0, i) \o Slice(b, f0, f1))
        n == Normalise(mant, (IF eneg THEN 0 - ev ELSE ev) - (f1 - f0))
    IN  PyFloat(IF neg THEN 0 - n[1] ELSE n[1], n[2])

HasChar(s, cs) == \E k \in 1..Len(s) : s[k] \in cs

\* `value = float(num_str)` for every literal.
number_value_float(num_str) == float_of(num_str)
\* The conversion in tokenize's number branch.
number_value(num_str) ==
    IF HasChar(num_str, {"e", "E"}) THEN float_of(num_str)
    ELSE IF HasChar(num_str, {"."}) THEN float_of(num_str)
    ELSE PyInt(int_of(num_str))

----------------------------------------------------------------------------
(* Lexer.tokenize: one action per iteration of `while self.pos < len`.     *)

\* The cursor after skip_whitespace at the head of an iteration.
LexCursor == skip_whitespace(lex_text, lex_pos)
\* `char = self.peek()` after the blanks (NoChar when the text is used up).
LexChar == peek_char(lex_text, LexCursor)
LexInLoop == lex_pc = "loop" /\ lex_pos < Len(lex_text)

\* self.tokens.append(token) with the cursor left at p.
LexEmit(token, p) ==
    /\ lex_tokens' = Append(lex_tokens, token)
    /\ lex_pos' = p
    /\ UNCHANGED <<lex_text, lex_pc, lex_err>>

\* Lexer.error(message) with the cursor at p.
LexRaise(msg, p) ==
    /\ lex_pc' = "raised"
    /\ lex_err' = [msg |-> msg, detail |-> <<>>, position |-> p]
    /\ lex_pos' = p
    /\ UNCHANGED <<lex_text, lex_tokens>>

\* Only blanks were left: `if self.pos >= len(self.text): break`.
LexBreak ==
    /\ LexInLoop
    /\ LexCursor >= Len(lex_text)
    /\ lex_pos' = LexCursor
    /\ UNCHANGED <<lex_text, lex_tokens, lex_pc, lex_err>>
    /\ UNCHANGED <<parser_vars, caller_vars>>

LexNumber ==
    /\ LexInLoop
    /\ LexChar = "-" \/ isdigit(LexChar) \/ LexChar = "."
    /\ \E r \in {read_number(lex_text, LexCursor)} :
           IF r.ok
           THEN LexEmit(Token("NUMBER", number_value(r.str), r.pos - Len(r.str)), r.pos)
           ELSE LexRaise(r.msg, r.pos)
    /\ UNCHANGED <<parser_vars, caller_vars>>

LexString ==
    /\ LexInLoop
    /\ LexChar = "\""
    /\ \E r \in {read_string(lex_text, LexCursor)} :
           IF r.ok
           THEN LexEmit(Token("STRING", PyStr(r.str), r.pos - Len(r.str) - 2), r.pos)
           ELSE LexRaise(r.msg, r.pos)
    /\ UNCHANGED <<parser_vars, caller_vars>>

LexConstantRef ==
    /\ LexInLoop
    /\ LexChar = "#" /\ peek_char(lex_text, LexCursor + 1) = "{"
    /\ LET start_pos == LexCursor + 2
           q == skip_to_brace(lex_text, start_pos)
       IN  IF q >= Len(lex_text)
           THEN LexRaise("Unclosed constant reference", q)
           ELSE LexEmit(Token("CONSTANT_REF", PyStr(Slice(lex_text, start_pos, q)),
                              start_pos - 2), q + 1)
    /\ UNCHANGED <<parser_vars, caller_vars>>

PunctType(c) ==
    CASE c = "[" -> "DICT_START" [] c = "]" -> "DICT_END"
      [] c = "(" -> "LPAREN" [] c = ")" -> "RPAREN" [] c = "," -> "COMMA"

\* The punctuation branch without its `self.advance()`.
LexPunct_no_advance ==
    /\ LexInLoop
    /\ LexChar \in {"[", "]", "(", ")", ","}
    /\ LexEmit(Token(PunctType(LexChar), PyStr(<<LexChar>>), LexCursor), LexCursor)
    /\ UNCHANGED <<parser_vars, caller_vars>>
LexPunct ==
    /\ LexInLoop
    /\ LexChar \in {"[", "]", "(", ")", ","}
    /\ LexEmit(Token(PunctType(LexChar), PyStr(<<LexChar>>), (LexCursor + 1) - 1),
               LexCursor + 1)
    /\ UNCHANGED <<parser_vars, caller_vars>>

LexEquals ==
    /\ LexInLoop
    /\ LexChar = "="
    /\ IF peek_char(lex_text, LexCursor + 1) = ">"
       THEN LexEmit(Token("ARROW", PyStr(<<"=", ">">>), (LexCursor + 2) - 2), LexCursor + 2)
       ELSE LexEmit(Token("EQUALS", PyStr(<<"=">>), (LexCursor + 1) - 1), LexCursor + 1)
    /\ UNCHANGED <<parser_vars, caller_vars>>

\* A lexer for which ">" on its own is no token.
LexGreater_unexpected ==
    /\ LexInLoop
    /\ LexChar = ">"
    /\ LexRaise("Unexpected character", LexCursor)
    /\ UNCHANGED <<parser_vars, caller_vars>>

LexGreater ==
    /\ LexInLoop
    /\ LexChar = ">"
    /\ LexEmit(Token("ARROW", PyStr(<<"=", ">">>), (LexCursor + 1) - 1), LexCursor + 1)
    /\ UNCHANGED <<parser_vars, caller_vars>>

\* `text[pos:pos+n] == word`, whatever follows the word.
IsKeywordAt_prefix(text, p, word) ==
    /\ p + Len(word) <= Len(text)
    /\ Slice(text, p, p + Len(word)) = word

\* `text[pos:pos+n] == word` and the next character does not continue a word.
IsKeywordAt(text, p, word) ==
    /\ p + Len(word) <= Len(text)
    /\ Slice(text, p, p + Len(word)) = word
    /\ \/ p + Len(word) >= Len(text)
       \/ ~(isalnum(text[p + Len(word) + 1]) \/ text[p + Len(word) + 1] = "_")

\* The keyword / identifier branch: how far it reads and the token it appends.
word_token(text, p) ==
    LET char == text[p + 1]
        r == read_identifier(text, p)
        ident == Token("IDENTIFIER", PyStr(r.str), r.pos - Len(r.str))
    IN  IF char = "a" /\ p + 5 <= Len(text) /\ Slice(text, p, p + 5) = S_array
        THEN IF IsKeywordAt(text, p, S_array)
             THEN [pos |-> p + 5, token |-> Token("ARRAY", PyStr(S_array), (p + 5) - 5)]
             ELSE [pos |-> r.pos, token |-> ident]
        ELSE IF char = "l" /\ p + 3 <= Len(text) /\ Slice(text, p, p + 3) = S_let
        THEN IF IsKeywordAt(text, p, S_let)
             THEN [pos |-> p + 3, token |-> Token("LET", PyStr(S_let), (p + 3) - 3)]
             ELSE [pos |-> r.pos, token |-> ident]
        ELSE [pos |-> r.pos, token |-> ident]

LexWord ==
    /\ LexInLoop
    /\ IsIdentStart(LexChar)
    /\ LET w == word_token(lex_text, LexCursor)
       IN  LexEmit(w.token, w.pos)
    /\ UNCHANGED <<parser_vars, caller_vars>>

LexUnexpected ==
    /\ LexInLoop
    /\ LexCursor < Len(lex_text)
    /\ ~(LexChar = "-" \/ isdigit(LexChar) \/ LexChar = ".")
    /\ LexChar # "\""
    /\ ~(LexChar = "#" /\ peek_char(lex_text, LexCursor + 1) = "{")
    /\ LexChar \notin {"[", "]", "(", ")", ",", "=", ">"}
    /\ ~IsIdentStart(LexChar)
    /\ LexRaise("Unexpected character", LexCursor)
    /\ UNCHANGED <<parser_vars, caller_vars>>

\* The loop is left and self.tokens returned as it is.
LexReturn_no_eof ==
    /\ lex_pc = "loop"
    /\ lex_pos >= Len(lex_text)
    /\ lex_pc' = "returned"
    /\ UNCHANGED <<lex_text, lex_pos, lex_tokens, lex_err>>
    /\ UNCHANGED <<parser_vars, caller_vars>>

\* The loop is left: append EOF and return self.tokens.
LexReturn ==
    /\ lex_pc = "loop"
    /\ lex_pos >= Len(lex_text)
    /\ lex_tokens' = Append(lex_tokens, Token("EOF", None, lex_pos))
    /\ lex_pc' = "returned"
    /\ UNCHANGED <<lex_text, lex_pos, lex_err>>
    /\ UNCHANGED <<parser_vars, caller_vars>>

LexNext ==
    \/ LexBreak
    \/ LexNumber
    \/ LexString
    \/ LexConstantRef
    \/ LexPunct
    \/ LexEquals
    \/ LexGreater
    \/ LexWord
    \/ LexUnexpected
    \/ LexReturn

----------------------------------------------------------------------------
(* Parser. pc names the statement about to run:                            *)
(*   "parse"        head of the loop of parse                              *)
(*   "let_name", "let_equals"       the expects of parse_let               *)
(*   "parse_value"  entry of parse_value                                   *)
(*   "array_lparen", "array_first", "array_sep"     parse_array            *)
(*   "dict_loop", "dict_arrow", "dict_sep"          parse_dict             *)
(*   "return"       parse_value has returned val to the caller on top of   *)
(*                  the stack                                              *)
(*   "returned", "raised"   parse is over                                  *)

\* A caller waiting for a value: parse, parse_let (name), parse_array (acc is
\* its `values`), parse_dict (acc is its `result`, name the entry's key).
Frame(fn, name, acc) == [fn |-> fn, name |-> name, acc |-> acc]

Top == stack[Len(stack)]
Pop == SubSeq(stack, 1, Len(stack) - 1)
Push(f) == Append(stack, f)
ReplaceTop(f) == [stack EXCEPT ![Len(stack)] = f]

\* Parser.peek with the cursor at p.
peek_at(p) == IF p >= Len(tokens) THEN tokens[Len(tokens)] ELSE tokens[p + 1]
peek == peek_at(pos)
\* An advance without its `self.pos += 1`.
advance_stay == pos
\* The cursor after Parser.advance.
advance == IF pos < Len(tokens) THEN pos + 1 ELSE pos

\* Parser.error(message) raised with the cursor at p.
PRaise(msg, detail, p) ==
    /\ pc' = "raised"
    /\ err' = [msg |-> msg, detail |-> detail,
               position |-> IF p < Len(tokens) THEN tokens[p + 1].position ELSE -1]
    /\ pos' = p
    /\ UNCHANGED <<source, tokens, constants, result, stack, val, ret>>

\* `result.setdefault(name, value)`: the first entry of a key is kept.
DictSet_setdefault(entries, key, value) ==
    IF \E i \in 1..Len(entries) : entries[i].key = key
    THEN entries
    ELSE Append(entries, [key |-> key, value |-> value])
\* `result[name] = value` on a dict kept as its pairs in insertion order.
DictSet(entries, key, value) ==
    IF \E i \in 1..Len(entries) : entries[i].key = key
    THEN [i \in 1..Len(entries) |->
            IF entries[i].key = key THEN [key |-> key, value |-> value] ELSE entries[i]]
    ELSE Append(entries, [key |-> key, value |-> value])

\* `self.constants.setdefault(name, value)`: the first binding is kept.
ConstSet_setdefault(table, name, value) ==
    [n \in DOMAIN table \cup {name} |-> IF n \in DOMAIN table THEN table[n] ELSE value]
\* `self.constants[name] = value`
ConstSet(table, name, value) ==
    [n \in DOMAIN table \cup {name} |-> IF n = name THEN value ELSE table[n]]

\* `return result or {}`
parse_result_truthy(r) ==
    IF r \in {None, PyInt(0), PyBool(FALSE), PyStr(<<>>), PyList(<<>>), PyDict(<<>>)}
    THEN PyDict(<<>>) ELSE r
\* `return result if result is not None else {}`
parse_result(r) == IF r = None THEN PyDict(<<>>) ELSE r

\* `if not result` in place of `if result is None`.
root_missing_falsy(r) ==
    r \in {None, PyInt(0), PyBool(FALSE), PyStr(<<>>), PyList(<<>>), PyDict(<<>>)}
\* `if result is None`: no root value was parsed yet.
root_missing(r) == r = None

\* One iteration of the loop of parse, up to the call it makes.
PParse ==
    /\ pc = "parse"
    /\ IF pos >= Len(tokens) \/ peek.type = "EOF"
       THEN /\ ret' = parse_result(result)
            /\ pc' = "returned"
            /\ UNCHANGED <<source, tokens, pos, constants, result, stack, val, err>>
       ELSE IF peek.type = "LET"
       THEN \* parse_let: self.expect(TokenType.LET)
            /\ pos' = advance
            /\ pc' = "let_name"
            /\ UNCHANGED <<source, tokens, constants, result, stack, val, ret, err>>
       ELSE IF root_missing(result)
       THEN /\ stack' = Push(Frame("parse", None, <<>>))
            /\ pc' = "parse_value"
            /\ UNCHANGED <<source, tokens, pos, constants, result, val, ret, err>>
       ELSE PRaise("Multiple root values", <<>>, pos)
    /\ UNCHANGED <<lex_vars, caller_vars>>

\* parse_let: name_token = self.expect(TokenType.IDENTIFIER)
PLetName ==
    /\ pc = "let_name"
    /\ IF peek.type # "IDENTIFIER"
       THEN PRaise("Expected token", <<"IDENTIFIER", peek.type>>, pos)
       ELSE /\ pos' = advance
            /\ stack' = Push(Frame("parse_let", peek.value, <<>>))
            /\ pc' = "let_equals"
            /\ UNCHANGED <<source, tokens, constants, result, val, ret, err>>
    /\ UNCHANGED <<lex_vars, caller_vars>>

\* parse_let: self.expect(TokenType.EQUALS), then the call of parse_value.
PLetEquals ==
    /\ pc = "let_equals"
    /\ IF peek.type # "EQUALS"
       THEN PRaise("Expected token", <<"EQUALS", peek.type>>, pos)
       ELSE /\ pos' = advance
            /\ pc' = "parse_value"
            /\ UNCHANGED <<source, tokens, constants, result, stack, val, ret, err>>
    /\ UNCHANGED <<lex_vars, caller_vars>>

\* parse_value returns v with the cursor at p.
PYield(v, p) ==
    /\ val' = v
    /\ pos' = p
    /\ pc' = "return"
    /\ UNCHANGED <<source, tokens, constants, result, stack, ret, err>>

\* An IDENTIFIER branch that takes any other identifier as its text.
identifier_value_text(token) ==
    IF token.value = PyStr(S_true) THEN PyBool(TRUE)
    ELSE IF token.value = PyStr(S_false) THEN PyBool(FALSE)
    ELSE token.value
\* The IDENTIFIER branch of parse_value.
identifier_value(token) ==
    IF token.value = PyStr(S_true) THEN PyBool(TRUE)
    ELSE IF token.value = PyStr(S_false) THEN PyBool(FALSE)
    ELSE None

\* `return self.constants.get(name)`: an unbound name yields None.
PConstantRef_get(token) ==
    PYield(IF token.value \in DOMAIN constants THEN constants[token.value] ELSE None,
           advance)
\* The CONSTANT_REF branch of parse_value: advance, then the lookup.
PConstantRef(token) ==
    IF token.value \notin DOMAIN constants
    THEN PRaise("Undefined constant", token.value.str, advance)
    ELSE PYield(constants[token.value], advance)

\* parse_value, up to its return or the call of parse_array / parse_dict.
PValue ==
    /\ pc = "parse_value"
    /\ LET token == peek
       IN  CASE token.type \in {"NUMBER", "STRING"} ->
                    PYield(token.value, advance)
             [] token.type = "ARRAY" ->
                    \* parse_array: self.expect(TokenType.ARRAY)
                    /\ pos' = advance
                    /\ pc' = "array_lparen"
                    /\ UNCHANGED <<source, tokens, constants, result, stack, val, ret, err>>
             [] token.type = "DICT_START" ->
                    \* parse_dict: self.expect(TokenType.DICT_START); result = {}
                    /\ pos' = advance
                    /\ stack' = Push(Frame("parse_dict", None, <<>>))
                    /\ pc' = "dict_loop"
                    /\ UNCHANGED <<source, tokens, constants, result, val, ret, err>>
             [] token.type = "CONSTANT_REF" ->
                    PConstantRef(token)
             [] token.type = "IDENTIFIER" ->
                    IF identifier_value(token) # None
                    THEN PYield(identifier_value(token), advance)
                    ELSE PRaise("Unexpected identifier in value", token.value.str, pos)
             [] OTHER ->
                    PRaise("Unexpected token in value", <<token.type>>, pos)
    /\ UNCHANGED <<lex_vars, caller_vars>>

\* parse_array: self.expect(TokenType.LPAREN); values = []
PArrayLParen ==
    /\ pc = "array_lparen"
    /\ IF peek.type # "LPAREN"
       THEN PRaise("Expected token", <<"LPAREN", peek.type>>, pos)
       ELSE /\ pos' = advance
            /\ stack' = Push(Frame("parse_array", None, <<>>))
            /\ pc' = "array_first"
            /\ UNCHANGED <<source, tokens, constants, result, val, ret, err>>
    /\ UNCHANGED <<lex_vars, caller_vars>>

\* parse_array returns its values.
PArrayClose ==
    /\ val' = PyList(Top.acc)
    /\ stack' = Pop
    /\ pos' = advance
    /\ pc' = "return"
    /\ UNCHANGED <<source, tokens, constants, result, ret, err>>

\* parse_array: the empty-array test, else the first call of parse_value.
PArrayFirst ==
    /\ pc = "array_first"
    /\ IF peek.type = "RPAREN"
       THEN PArrayClose
       ELSE /\ pc' = "parse_value"
            /\ UNCHANGED <<source, tokens, pos, constants, result, stack, val, ret, err>>
    /\ UNCHANGED <<lex_vars, caller_vars>>

\* A separator test without its error branch: any other token ends the array.
array_separator_lenient(type) ==
    IF type = "COMMA" THEN "continue" ELSE "break"
\* parse_array: what follows an element.
array_separator(type) ==
    IF type = "COMMA" THEN "continue"
    ELSE IF type = "RPAREN" THEN "break"
    ELSE "error"

PArraySep ==
    /\ pc = "array_sep"
    /\ LET next == array_separator(peek.type)
       IN  IF next = "continue"
           THEN /\ pos' = advance
                /\ pc' = "parse_value"
                /\ UNCHANGED <<source, tokens, constants, result, stack, val, ret, err>>
           ELSE IF next = "break"
           THEN PArrayClose
           ELSE PRaise("Expected comma or closing parenthesis", <<>>, pos)
    /\ UNCHANGED <<lex_vars, caller_vars>>

\* A loop head that takes the key with self.advance(), whatever its type.
PDictLoop_any_key ==
    /\ pc = "dict_loop"
    /\ IF peek.type = "DICT_END"
       THEN /\ val' = PyDict(Top.acc)
            /\ stack' = Pop
            /\ pos' = advance
            /\ pc' = "return"
            /\ UNCHANGED <<source, tokens, constants, result, ret, err>>
       ELSE /\ pos' = advance
            /\ stack' = ReplaceTop(Frame("parse_dict", peek.value, Top.acc))
            /\ pc' = "dict_arrow"
            /\ UNCHANGED <<source, tokens, constants, result, val, ret, err>>
    /\ UNCHANGED <<lex_vars, caller_vars>>

\* parse_dict: the head of its loop, to the end of the dict or past a key.
PDictLoop ==
    /\ pc = "dict_loop"
    /\ IF peek.type = "DICT_END"
       THEN /\ val' = PyDict(Top.acc)
            /\ stack' = Pop
            /\ pos' = advance
            /\ pc' = "return"
            /\ UNCHANGED <<source, tokens, constants, result, ret, err>>
       ELSE IF peek.type # "IDENTIFIER"
       THEN PRaise("Expected token", <<"IDENTIFIER", peek.type>>, pos)
       ELSE /\ pos' = advance
            /\ stack' = ReplaceTop(Frame("parse_dict", peek.value, Top.acc))
            /\ pc' = "dict_arrow"
            /\ UNCHANGED <<source, tokens, constants, result, val, ret, err>>
    /\ UNCHANGED <<lex_vars, caller_vars>>

\* parse_dict: self.expect(TokenType.ARROW), then the call of parse_value.
PDictArrow ==
    /\ pc = "dict_arrow"
    /\ IF peek.type # "ARROW"
       THEN PRaise("Expected token", <<"ARROW", peek.type>>, pos)
       ELSE /\ pos' = advance
            /\ pc' = "parse_value"
            /\ UNCHANGED <<source, tokens, constants, result, stack, val, ret, err>>
    /\ UNCHANGED <<lex_vars, caller_vars>>

\* A separator test that wants an entry after every comma.
PDictSep_entry_after_comma ==
    /\ pc = "dict_sep"
    /\ IF peek.type = "COMMA"
       THEN IF peek_at(advance).type = "DICT_END"
            THEN PRaise("Expected token", <<"IDENTIFIER", "DICT_END">>, advance)
            ELSE /\ pos' = advance
                 /\ pc' = "dict_loop"
                 /\ UNCHANGED <<source, tokens, constants, result, stack, val, ret, err>>
       ELSE IF peek.type = "DICT_END"
       THEN /\ pc' = "dict_loop"
            /\ UNCHANGED <<source, tokens, pos, constants, result, stack, val, ret, err>>
       ELSE PRaise("Expected comma or closing bracket", <<>>, pos)
    /\ UNCHANGED <<lex_vars, caller_vars>>
\* parse_dict: what follows an entry.
PDictSep ==
    /\ pc = "dict_sep"
    /\ IF peek.type = "COMMA"
       THEN /\ pos' = advance
            /\ pc' = "dict_loop"
            /\ UNCHANGED <<source, tokens, constants, result, stack, val, ret, err>>
       ELSE IF peek.type = "DICT_END"
       THEN /\ pc' = "dict_loop"
            /\ UNCHANGED <<source, tokens, pos, constants, result, stack, val, ret, err>>
       ELSE PRaise("Expected comma or closing bracket", <<>>, pos)
    /\ UNCHANGED <<lex_vars, caller_vars>>

\* `values.insert(0, value)`
list_prepend(values, value) == <<value>> \o values
\* `values.append(value)`
list_append(values, value) == Append(values, value)

\* The caller on top of the stack takes the value parse_value returned.
PReturn ==
    /\ pc = "return"
    /\ CASE Top.fn = "parse" ->
                \* result = self.parse_value()
                /\ result' = val
                /\ stack' = Pop
                /\ pc' = "parse"
                /\ UNCHANGED constants
         [] Top.fn = "parse_let" ->
                \* self.constants[name] = value
                /\ constants' = ConstSet(constants, Top.name, val)
                /\ stack' = Pop
                /\ pc' = "parse"
                /\ UNCHANGED result
         [] Top.fn = "parse_array" ->
                \* values.append(value)
                /\ stack' = ReplaceTop(Frame("parse_array", None, list_append(Top.acc, val)))
                /\ pc' = "array_sep"
                /\ UNCHANGED <<constants, result>>
         [] Top.fn = "parse_dict" ->
                \* result[name] = value
                /\ stack' = ReplaceTop(Frame("parse_dict", None,
                                             DictSet(Top.acc, Top.name, val)))
                /\ pc' = "dict_sep"
                /\ UNCHANGED <<constants, result>>
    /\ val' = None
    /\ UNCHANGED <<source, tokens, pos, ret, err>>
    /\ UNCHANGED <<lex_vars, caller_vars>>

ParserNext ==
    \/ PParse
    \/ PLetName
    \/ PLetEquals
    \/ PValue
    \/ PArrayLParen
    \/ PArrayFirst
    \/ PArraySep
    \/ PDictLoop
    \/ PDictArrow
    \/ PDictSep
    \/ PReturn

----------------------------------------------------------------------------
(* The texts given to the lexer. *)

\* All sequences of at most n elements of S.
SeqsUpTo(S, n) == UNION {[1..k -> S] : k \in 0..n}

RECURSIVE Flatten(_)
Flatten(ss) == IF ss = <<>> THEN <<>> ELSE Head(ss) \o Flatten(Tail(ss))

NumChars == {"0", "1", ".", "-", "e", "E", "+"}
NumberTexts == SeqsUpTo(NumChars, MaxNumLen)

Lexemes ==
    {<<c>> : c \in {"1", ".", "-", "e", " ", "\n", "\"", "\\", "n", "x", "_", "A",
                    "#", "{", "}", "[", "]", "(", ")", ",", "=", ">", "!", "é"}}
    \cup {<<"#", "{">>, S_array, S_let}
MixedTexts == {Flatten(ls) : ls \in SeqsUpTo(Lexemes, MaxMixLen)}

\* Texts of quotes, backslashes and the characters that follow them in escapes.
StringChars == {"\"", "\\", "n", "t", "x"}
StringTexts == SeqsUpTo(StringChars, MaxStrLen)

LexInputs == NumberTexts \cup MixedTexts \cup StringTexts

NoError == [msg |-> "", detail |-> <<>>, position |-> -1]
\* No second Parser instance was constructed.
NoParser == [none |-> 0]
\* The program a token sequence was rendered from; NoSource when it was not.
NoSource == [raw |-> <<>>]
\* The file at args.output before main has opened it.
NoFile == [absent |-> 0]
\* The lexer or the parser is called by other code than main.
NoMain ==
    /\ main_pc = "idle"
    /\ stderr = <<>>
    /\ exit_status = -1
    /\ toml_output = None
    /\ output_file = NoFile

\* The parser before Parser(tokens) is constructed.
ParserIdle ==
    /\ source = NoSource
    /\ tokens = <<>>
    /\ pos = 0
    /\ constants = <<>>
    /\ result = None
    /\ stack = <<>>
    /\ val = None
    /\ pc = "idle"
    /\ ret = None
    /\ err = NoError

\* Lexer(text) followed by the first lines of tokenize.
LexInit ==
    /\ lex_text \in LexInputs
    /\ lex_pos = 0
    /\ lex_tokens = <<>>
    /\ lex_pc = "loop"
    /\ lex_err = NoError
    /\ ParserIdle
    /\ waiting = NoParser
    /\ NoMain

SpecLexer == LexInit /\ [][LexNext]_vars
\* The texts tokenize is followed to its end on: the mixed texts, and the
\* number and string texts up to MaxLoopLen characters.
MaxLoopLen == 3
LoopTexts ==
    MixedTexts \cup SeqsUpTo(NumChars, MaxLoopLen) \cup SeqsUpTo(StringChars, MaxLoopLen)
LexFairInit ==
    /\ lex_text \in LoopTexts
    /\ lex_pos = 0
    /\ lex_tokens = <<>>
    /\ lex_pc = "loop"
    /\ lex_err = NoError
    /\ ParserIdle
    /\ waiting = NoParser
    /\ NoMain
\* tokenize is one sequential loop: as long as a step of it is possible the
\* interpreter takes one.
SpecLexerFair == LexFairInit /\ [][LexNext]_vars /\ WF_vars(LexNext)

----------------------------------------------------------------------------
(* The token sequences given to the parser: every short sequence over the  *)
(* token alphabet, and the renderings of programs (expression trees).      *)

\* Token k of a rendered sequence is given the offset k - 1.
WithPositions(tv) ==
    [i \in 1..Len(tv) |-> Token(tv[i].type, tv[i].value, i - 1)]
TV(type, value) == [type |-> type, value |-> value]
S_A == <<"A">>
S_B == <<"B">>
S_x == <<"x">>
T_EOF == TV("EOF", None)
T_ARRAY == TV("ARRAY", PyStr(S_array))
T_LPAREN == TV("LPAREN", PyStr(<<"(">>))
T_RPAREN == TV("RPAREN", PyStr(<<")">>))
T_DICT_START == TV("DICT_START", PyStr(<<"[">>))
T_DICT_END == TV("DICT_END", PyStr(<<"]">>))
T_ARROW == TV("ARROW", PyStr(<<"=", ">">>))
T_COMMA == TV("COMMA", PyStr(<<",">>))
T_LET == TV("LET", PyStr(S_let))
T_EQUALS == TV("EQUALS", PyStr(<<"=">>))

TokenAlphabet ==
    {TV("NUMBER", PyInt(1)), TV("STRING", PyStr(<<"s">>)),
     TV("IDENTIFIER", PyStr(S_true)), TV("IDENTIFIER", PyStr(S_false)),
     TV("IDENTIFIER", PyStr(S_A)), TV("CONSTANT_REF", PyStr(S_A)),
     T_ARRAY, T_LPAREN, T_RPAREN, T_DICT_START, T_DICT_END,
     T_ARROW, T_COMMA, T_LET, T_EQUALS}

RawInputs == {WithPositions(Append(s, T_EOF)) : s \in SeqsUpTo(TokenAlphabet, MaxRaw)}

\* Expressions: a record with one field, named after the form.
ENum(n) == [num |-> n]
EStr(s) == [string |-> s]
EIdent(s) == [ident |-> s]
ERef(s) == [ref |-> s]
EArray(es) == [array |-> es]
\* entries: a sequence of [key, e]
EDict(entries) == [entries |-> entries]
\* A top-level item: `let name = e`, or the root value e (name = <<>>).
Item(name, e) == [name |-> name, e |-> e]

\* The array and dict literals of at most w elements over E, with keys K.
Nest(E, w, K) ==
    {EArray(s) : s \in SeqsUpTo(E, w)}
    \cup {EDict(s) : s \in SeqsUpTo([key : K, e : E], w)}

Leaves ==
    {ENum(0), ENum(1), EStr(<<>>), EIdent(S_true), EIdent(S_false), EIdent(S_x),
     ERef(S_A)}
SmallLeaves == {ENum(1), ENum(2), EStr(<<>>), EIdent(S_true), EIdent(S_x)}
Depth1 == Nest(SmallLeaves, MaxWidth, {<<"a">>, <<"b">>})
Inner == Nest({ENum(1), ENum(2)}, 2, {<<"a">>}) \cup {ENum(1), ENum(2)}
Depth2 == Nest(Inner, MaxWidth - 1, {<<"a">>})
Depth3 == Nest(Nest(Inner, 1, {<<"a">>}), 1, {<<"a">>})
ValueExprs == Leaves \cup Depth1 \cup Depth2 \cup Depth3

\* One root value and nothing else.
ValuePrograms == {<<Item(<<>>, e)>> : e \in ValueExprs}

\* let declarations over two names, references to them, in any order.
ConstItems ==
    {Item(n, e) : n \in {S_A, S_B}, e \in {ENum(1), ENum(2), ERef(S_A), ERef(S_B)}}
    \cup {Item(<<>>, e) : e \in {ERef(S_A), ERef(S_B), EArray(<<ERef(S_A), ERef(S_B)>>)}}
ConstPrograms == SeqsUpTo(ConstItems, MaxItems)

\* Root values, the falsy ones among them, and a let, in any order.
RootItems ==
    {Item(S_A, ENum(0))}
    \cup {Item(<<>>, e) : e \in {ENum(0), ENum(1), EIdent(S_false), EStr(<<>>),
                                 EArray(<<>>), EDict(<<>>)}}
RootPrograms == SeqsUpTo(RootItems, MaxItems - 1)

Programs == ValuePrograms \cup ConstPrograms \cup RootPrograms

RECURSIVE RenderExpr(_)
RECURSIVE RenderList(_)
RECURSIVE RenderEntries(_)
\* e1 , e2 , ... , en
RenderList(es) ==
    IF es = <<>> THEN <<>>
    ELSE IF Len(es) = 1 THEN RenderExpr(es[1])
    ELSE RenderExpr(es[1]) \o <<T_COMMA>> \o RenderList(Tail(es))
\* k1 => e1 , ... , kn => en
RenderEntries(es) ==
    IF es = <<>> THEN <<>>
    ELSE <<TV("IDENTIFIER", PyStr(es[1].key)), T_ARROW>> \o RenderExpr(es[1].e)
         \o (IF Len(es) = 1 THEN <<>> ELSE <<T_COMMA>> \o RenderEntries(Tail(es)))
RenderExpr(e) ==
    CASE IsKind(e, "num") -> <<TV("NUMBER", PyInt(e.num))>>
      [] IsKind(e, "string") -> <<TV("STRING", PyStr(e.string))>>
      [] IsKind(e, "ident") -> <<TV("IDENTIFIER", PyStr(e.ident))>>
      [] IsKind(e, "ref") -> <<TV("CONSTANT_REF", PyStr(e.ref))>>
      [] IsKind(e, "array") ->
            <<T_ARRAY, T_LPAREN>> \o RenderList(e.array) \o <<T_RPAREN>>
      [] IsKind(e, "entries") ->
            <<T_DICT_START>> \o RenderEntries(e.entries) \o <<T_DICT_END>>

RenderItem(it) ==
    IF it.name = <<>> THEN RenderExpr(it.e)
    ELSE <<T_LET, TV("IDENTIFIER", PyStr(it.name)), T_EQUALS>> \o RenderExpr(it.e)

RECURSIVE RenderItems(_)
RenderItems(items) ==
    IF items = <<>> THEN <<>> ELSE RenderItem(items[1]) \o RenderItems(Tail(items))

\* What the lexer hands over for the program: its tokens and EOF.
RenderProgram(items) == WithPositions(Append(RenderItems(items), T_EOF))

\* Well-formed programs, and each with one token inserted, replaced or deleted.
TamperBases ==
    {<<Item(<<>>, EArray(<<ENum(1)>>))>>,
     <<Item(<<>>, EArray(<<ENum(1), ENum(1)>>))>>,
     <<Item(<<>>, EDict(<<[key |-> S_A, e |-> ENum(1)]>>))>>,
     <<Item(<<>>, EDict(<<[key |-> S_A, e |-> ENum(1)], [key |-> S_A, e |-> ENum(1)]>>))>>,
     <<Item(S_A, ENum(1))>>}
InsertAt(s, i, t) == SubSeq(s, 1, i - 1) \o <<t>> \o SubSeq(s, i, Len(s))
ReplaceAt(s, i, t) == [s EXCEPT ![i] = t]
DeleteAt(s, i) == SubSeq(s, 1, i - 1) \o SubSeq(s, i + 1, Len(s))
Tampered(s) ==
    {InsertAt(s, i, t) : i \in 1..(Len(s) + 1), t \in TokenAlphabet}
    \cup {ReplaceAt(s, i, t) : i \in 1..Len(s), t \in TokenAlphabet}
    \cup {DeleteAt(s, i) : i \in 1..Len(s)}
TamperedInputs ==
    {WithPositions(Append(s, T_EOF)) : s \in UNION {Tampered(RenderItems(b)) : b \in TamperBases}}

\* The lexer while a parser is checked on its own.
LexIdle ==
    /\ lex_text = <<>>
    /\ lex_pos = 0
    /\ lex_tokens = <<>>
    /\ lex_pc = "idle"
    /\ lex_err = NoError

\* Parser(tokens), and parse up to its loop.
ParserStart ==
    /\ pos = 0
    /\ constants = <<>>
    /\ result = None
    /\ stack = <<>>
    /\ val = None
    /\ pc = "parse"
    /\ ret = None
    /\ err = NoError

\* Dict literals of one to MaxWidth entries, written with a comma after the
\* last entry: [ k1 => e1 , ... , kn => en , ]
TrailingValues ==
    {ENum(1), ENum(2), EIdent(S_true), EArray(<<ENum(1)>>),
     EDict(<<[key |-> <<"a">>, e |-> ENum(1)]>>)}
TrailingDicts ==
    {EDict(s) : s \in SeqsUpTo([key : {<<"a">>, <<"b">>}, e : TrailingValues], MaxWidth)
                       \ {<<>>}}
RenderTrailing(e) ==
    WithPositions(<<T_DICT_START>> \o RenderEntries(e.entries)
                  \o <<T_COMMA, T_DICT_END, T_EOF>>)

ParserInit ==
    /\ \/ source = NoSource /\ tokens \in RawInputs \cup TamperedInputs
       \/ \E p \in Programs : source = [program |-> p] /\ tokens = RenderProgram(p)
       \/ \E e \in TrailingDicts : source = [trailing |-> e] /\ tokens = RenderTrailing(e)
    /\ ParserStart
    /\ LexIdle
    /\ waiting = NoParser
    /\ NoMain

SpecParser == ParserInit /\ [][ParserNext]_vars
\* The programs parse is followed to its end on: the leaves and the nested
\* literals as root values, and up to MaxLoopItems let declarations and
\* references.
MaxLoopItems == 3
LoopPrograms ==
    {<<Item(<<>>, e)>> : e \in Leaves \cup Depth2 \cup Depth3}
    \cup SeqsUpTo(ConstItems, MaxLoopItems)
ParserFairInit ==
    /\ \/ source = NoSource /\ tokens \in RawInputs \cup TamperedInputs
       \/ \E p \in LoopPrograms : source = [program |-> p] /\ tokens = RenderProgram(p)
    /\ ParserStart
    /\ LexIdle
    /\ waiting = NoParser
    /\ NoMain
\* parse is one sequential computation: as long as a step of it is possible
\* the interpreter takes one.
SpecParserFair == ParserFairInit /\ [][ParserNext]_vars /\ WF_vars(ParserNext)

----------------------------------------------------------------------------
(* What a program denotes, stated on its expression tree.                  *)

Undefined == [undefined |-> 0]
Max(S) == CHOOSE x \in S : \A y \in S : y <= x
Min(S) == CHOOSE x \in S : \A y \in S : x <= y

\* The dict a sequence of (key, value) pairs denotes: one pair per key, at the
\* place of the key's first pair, with the value of the key's last pair.
DictOf(pairs) ==
    LET n == Len(pairs)
        first == SelectSeq([i \in 1..n |-> i],
                           LAMBDA i : \A j \in 1..(i - 1) : pairs[j].key # pairs[i].key)
        last(k) == Max({j \in 1..n : pairs[j].key = k})
    IN  [m \in 1..Len(first) |->
            [key |-> pairs[first[m]].key, value |-> pairs[last(pairs[first[m]].key)].value]]

\* The value of expression e standing in item k of the program `items`: a
\* reference denotes what the last `let` of its name among items 1..k-1 denotes.
\* With `bare`, an identifier other than true/false denotes its text.
RECURSIVE Denote(_, _, _, _)
Denote(items, k, e, bare) ==
    CASE IsKind(e, "num") -> PyInt(e.num)
      [] IsKind(e, "string") -> PyStr(e.string)
      [] IsKind(e, "ident") ->
            IF e.ident = S_true THEN PyBool(TRUE)
            ELSE IF e.ident = S_false THEN PyBool(FALSE)
            ELSE IF bare THEN PyStr(e.ident)
            ELSE Undefined
      [] IsKind(e, "ref") ->
            LET lets == {j \in 1..(k - 1) : items[j].name = e.ref}
            IN  IF lets = {} THEN Undefined
                ELSE Denote(items, Max(lets), items[Max(lets)].e, bare)
      [] IsKind(e, "array") ->
            LET vs == [i \in 1..Len(e.array) |-> Denote(items, k, e.array[i], bare)]
            IN  IF \E i \in 1..Len(vs) : vs[i] = Undefined THEN Undefined
                ELSE PyList(vs)
      [] IsKind(e, "entries") ->
            LET ps == [i \in 1..Len(e.entries) |->
                         [key |-> PyStr(e.entries[i].key),
                          value |-> Denote(items, k, e.entries[i].e, bare)]]
            IN  IF \E i \in 1..Len(ps) : ps[i].value = Undefined THEN Undefined
                ELSE PyDict(DictOf(ps))

IsProgram == IsKind(source, "program")
Roots(items) == {k \in 1..Len(items) : items[k].name = <<>>}
Lets(items) == {k \in 1..Len(items) : items[k].name # <<>>}
\* Every item denotes a value and at most one of them is a root value.
WellFormed(items) ==
    /\ \A k \in 1..Len(items) : Denote(items, k, items[k].e, FALSE) # Undefined
    /\ Cardinality(Roots(items)) <= 1
\* The constant table after the program: each name's last `let`.
FinalConstants(items) ==
    LET names == {items[k].name : k \in Lets(items)}
        last(n) == Max({k \in Lets(items) : items[k].name = n})
    IN  [n \in {PyStr(x) : x \in names} |->
            Denote(items, last(n.str), items[last(n.str)].e, FALSE)]
Finished == pc \in {"returned", "raised"}

\* The leaves of e from left to right.
RECURSIVE LeavesOf(_)
LeavesOf(e) ==
    IF IsKind(e, "array") THEN Flatten([i \in 1..Len(e.array) |-> LeavesOf(e.array[i])])
    ELSE IF IsKind(e, "entries")
    THEN Flatten([i \in 1..Len(e.entries) |-> LeavesOf(e.entries[i].e)])
    ELSE <<e>>

\* Why the first item that cannot be parsed cannot: a second root value
\* ("multiple"), else its first leaf that denotes nothing ("ident" / "ref").
FirstFailure(items) ==
    LET bad == {k \in 1..Len(items) :
                   \/ Denote(items, k, items[k].e, FALSE) = Undefined
                   \/ k \in Roots(items) /\ \E j \in Roots(items) : j < k}
        k == Min(bad)
        ls == LeavesOf(items[k].e)
        l == ls[Min({i \in 1..Len(ls) : Denote(items, k, ls[i], FALSE) = Undefined})]
    IN  IF bad = {} THEN [reason |-> "none", name |-> <<>>]
        ELSE IF k \in Roots(items) /\ \E j \in Roots(items) : j < k
        THEN [reason |-> "multiple", name |-> <<>>]
        ELSE IF IsKind(l, "ref") THEN [reason |-> "ref", name |-> l.ref]
        ELSE [reason |-> "ident", name |-> l.ident]

----------------------------------------------------------------------------
(* Claims about the lexer. *)

\* A text of the form digits "." digits "." digits.
IsTwoDotNumber(text) ==
    \E i, j \in 1..Len(text) :
        /\ 1 < i /\ i + 1 < j /\ j < Len(text)
        /\ text[i] = "." /\ text[j] = "."
        /\ \A k \in (1..Len(text)) \ {i, j} : isdigit(text[k])

\* C1: tokenize never returns a token list for a numeric literal with a second
\* decimal point (digits "." digits "." digits): it raises a lexical error.
C1_SecondDecimalPointRejected ==
    IsTwoDotNumber(lex_text) => lex_pc # "returned"

----------------------------------------------------------------------------
(* Claims about the parser. *)

Items == source.program
\* The single root expression of a program that is one root value.
IsRootOnly == IsProgram /\ Len(Items) = 1 /\ Items[1].name = <<>>
RootExpr == Items[1].e
IsBareIdent(e) == IsKind(e, "ident") /\ e.ident \notin {S_true, S_false}
\* What parse returns for a well-formed program.
Expected(items) ==
    IF Roots(items) = {} THEN PyDict(<<>>)
    ELSE LET k == Min(Roots(items)) IN Denote(items, k, items[k].e, FALSE)
\* The offset given to the first token of item k.
ItemOffset(items, k) == Len(RenderItems(SubSeq(items, 1, k - 1)))

\* C2: a dict entry whose value is a bare identifier other than true/false is
\* parsed, and the entry's value is the identifier's text as a string:
\* `[ key => value ]` gives {"key": "value"}, also when nested.
C2_BareIdentifierIsString ==
    (/\ IsRootOnly /\ Finished
     /\ IsKind(RootExpr, "entries")
     /\ \E i \in 1..Len(RootExpr.entries) : IsBareIdent(RootExpr.entries[i].e)
     /\ Denote(Items, 1, RootExpr, TRUE) # Undefined)
    => (pc = "returned" /\ ret = Denote(Items, 1, RootExpr, TRUE))

\* C3, one step of parse_value at an IDENTIFIER token.
C3_Step ==
    (pc = "parse_value" /\ peek.type = "IDENTIFIER")
    => IF peek.value \in {PyStr(S_true), PyStr(S_false)}
       THEN /\ pc' = "return"
            /\ val' = PyBool(peek.value = PyStr(S_true))
            /\ pos' = pos + 1
       ELSE /\ pc' = "raised"
            /\ err'.msg = "Unexpected identifier in value"
            /\ err'.detail = peek.value.str
            /\ ret' = None
\* C3, on whole programs: the first thing wrong is a bare identifier.
C3_Programs ==
    (IsProgram /\ Finished /\ FirstFailure(Items).reason = "ident")
    => (/\ pc = "raised"
        /\ err.msg = "Unexpected identifier in value"
        /\ err.detail = FirstFailure(Items).name
        /\ ret = None)
BoundBefore ==
    LET starts == {i \in 1..pos : tokens[i].type = "LET"}
        open == IF stack # <<>> /\ stack[1].fn = "parse_let" THEN {Max(starts)} ELSE {}
    IN  {tokens[i + 1].value : i \in starts \ open}
\* C4, one step of parse_value at a CONSTANT_REF token.
C4_Step ==
    (pc = "parse_value" /\ peek.type = "CONSTANT_REF" /\ peek.value \notin BoundBefore)
    => (/\ pc' = "raised"
        /\ err'.msg = "Undefined constant"
        /\ err'.detail = peek.value.str
        /\ ret' = None)
\* C4, on whole programs: the first thing wrong is a reference with no earlier let.
C4_Programs ==
    (IsProgram /\ Finished /\ FirstFailure(Items).reason = "ref")
    => (/\ pc = "raised"
        /\ err.msg = "Undefined constant"
        /\ err.detail = FirstFailure(Items).name
        /\ ret = None)
\* C4: a constant reference whose name no completely parsed earlier `let` has
\* bound makes parse fail with "Undefined constant": also when the only let of
\* the name comes later, and inside the right-hand side of the name's own let.
C4_UndefinedConstant == [][C4_Step]_vars /\ []C4_Programs
\* let B = 1  let A = #{A}: the reference stands in its own let.
C4_Witness ==
    /\ pc = "raised"
    /\ err.msg = "Undefined constant"
    /\ stack # <<>>
    /\ stack[1].fn = "parse_let"
    /\ stack[1].name = PyStr(err.detail)
    /\ constants # <<>>

HasRef(items) ==
    \E k \in 1..Len(items) :
        \E i \in 1..Len(LeavesOf(items[k].e)) : IsKind(LeavesOf(items[k].e)[i], "ref")
\* C5: every resolved constant reference has the value of the most recent
\* `let` of its name before it; a repeated let overwrites without an error,
\* and values taken from a reference before the redefinition keep the old one.
C5_MostRecentLet ==
    (IsProgram /\ Finished /\ HasRef(Items) /\ WellFormed(Items))
    => (/\ pc = "returned"
        /\ ret = Expected(Items)
        /\ constants = FinalConstants(Items))
\* let A = 1  let B = #{A}  let A = 2  array(#{A}, #{B})  gives [2, 1]
C5_Witness ==
    /\ pc = "returned"
    /\ source = [program |-> <<Item(S_A, ENum(1)), Item(S_B, ERef(S_A)),
                               Item(S_A, ENum(2)),
                               Item(<<>>, EArray(<<ERef(S_A), ERef(S_B)>>))>>]
    /\ ret = PyList(<<PyInt(2), PyInt(1)>>)

\* C6, one step of the loop of parse once a root value was parsed.
C6_Step ==
    (pc = "parse" /\ result # None /\ peek.type \notin {"LET", "EOF"})
    => (/\ pc' = "raised"
        /\ err'.msg = "Multiple root values"
        /\ err'.position = peek.position
        /\ ret' = None)
\* C6, on whole programs: a second root value fails at its first token; one
\* root value with lets before and after it is accepted.
C6_Programs ==
    /\ (IsProgram /\ Finished /\ FirstFailure(Items).reason = "multiple")
       => (/\ pc = "raised"
           /\ err.msg = "Multiple root values"
           /\ \E k \in Roots(Items) : /\ k # Min(Roots(Items))
                                      /\ err.position = ItemOffset(Items, k)
           /\ ret = None)
    /\ (IsProgram /\ Finished /\ WellFormed(Items)) => pc = "returned"
\* C6: parse accepts at most one root value: lets may come before and after
\* it, and the second top-level token that is neither LET nor EOF after a root
\* value makes parse fail with "Multiple root values".
C6_AtMostOneRoot == [][C6_Step]_vars /\ []C6_Programs
\* 0  let A = 0  1: the root value 0, a let after it, then a second root.
C6_Witness ==
    /\ pc = "raised"
    /\ err.msg = "Multiple root values"
    /\ result = PyInt(0)
    /\ constants # <<>>

\* C7: with no root value (EOF alone, or only lets) parse returns the empty
\* dict; with a root value it returns exactly that value, falsy or not.
C7_RootOrEmptyDict ==
    (IsProgram /\ Finished /\ WellFormed(Items))
    => /\ pc = "returned"
       /\ Roots(Items) = {} => ret = PyDict(<<>>)
       /\ \A k \in Roots(Items) : ret = Denote(Items, k, Items[k].e, FALSE)
\* let A = 0  0: the root value 0 is returned as it is.
C7_Witness ==
    /\ pc = "returned"
    /\ ret = PyInt(0)
    /\ constants # <<>>

\* C8: a well-formed array literal array(v1, ..., vn) is parsed to the list of
\* the values of v1..vn in source order, arrays and dicts nested in it included.
C8_ArrayInSourceOrder ==
    (IsRootOnly /\ Finished /\ IsKind(RootExpr, "array") /\ WellFormed(Items))
    => (/\ pc = "returned"
        /\ IsKind(ret, "list")
        /\ Len(ret.list) = Len(RootExpr.array)
        /\ \A i \in 1..Len(RootExpr.array) :
              ret.list[i] = Denote(Items, 1, RootExpr.array[i], FALSE))
\* array(array(1, 2), array(2, 1))
C8_Witness ==
    /\ pc = "returned"
    /\ ret = PyList(<<PyList(<<PyInt(1), PyInt(2)>>), PyList(<<PyInt(2), PyInt(1)>>)>>)

\* C9, one step after an element of an array literal.
C9_Step ==
    /\ (pc = "array_sep" /\ peek.type \notin {"COMMA", "RPAREN"})
       => (/\ pc' = "raised"
           /\ err'.msg = "Expected comma or closing parenthesis"
           /\ ret' = None)
    /\ (pc = "parse_value" /\ stack # <<>> /\ Top.fn = "parse_array"
        /\ peek.type = "RPAREN")
       => (pc' = "raised" /\ ret' = None)
\* C9, on every token sequence: none with `, )` in it is accepted.
C9_NoTrailingComma ==
    pc = "returned"
    => ~\E i \in 1..(Len(tokens) - 1) :
           tokens[i].type = "COMMA" /\ tokens[i + 1].type = "RPAREN"
\* C9: after an element of an array literal the next token must be COMMA or
\* RPAREN, any other (EOF included) is a syntax error; a comma directly before
\* the closing parenthesis is a syntax error too.
C9_ArraySeparators == [][C9_Step]_vars /\ []C9_NoTrailingComma
\* array(1,): raised at the closing parenthesis after the comma.
C9_Witness ==
    /\ pc = "raised"
    /\ stack # <<>>
    /\ Top.fn = "parse_array"
    /\ Top.acc = <<PyInt(1)>>
    /\ pos >= 1
    /\ tokens[pos].type = "COMMA"
    /\ tokens[pos + 1].type = "RPAREN"

\* C10: a well-formed dict literal is parsed to a dict with unique keys, each
\* with the value of its last entry, in the order of the keys' first entries;
\* `[]` is the empty dict.
C10_DictLastEntryWins ==
    (IsRootOnly /\ Finished /\ IsKind(RootExpr, "entries") /\ WellFormed(Items))
    => (/\ pc = "returned"
        /\ IsKind(ret, "dict")
        /\ \A i, j \in 1..Len(ret.dict) : ret.dict[i].key = ret.dict[j].key => i = j
        /\ ret.dict = DictOf([i \in 1..Len(RootExpr.entries) |->
                                [key |-> PyStr(RootExpr.entries[i].key),
                                 value |-> Denote(Items, 1, RootExpr.entries[i].e, FALSE)]]))
\* [a => 1, b => 2, a => 2] gives {a: 2, b: 2}
C10_Witness ==
    /\ pc = "returned"
    /\ IsRootOnly
    /\ IsKind(RootExpr, "entries")
    /\ Len(RootExpr.entries) = 3
    /\ ret = PyDict(<<[key |-> PyStr(<<"a">>), value |-> PyInt(2)],
                      [key |-> PyStr(<<"b">>), value |-> PyInt(2)]>>)

\* C11, one step of parse_dict at each of its three tests.
C11_Step ==
    /\ (pc = "dict_loop" /\ peek.type \notin {"DICT_END", "IDENTIFIER"})
       => (/\ pc' = "raised"
           /\ err'.msg = "Expected token"
           /\ err'.detail = <<"IDENTIFIER", peek.type>>
           /\ ret' = None)
    /\ (pc = "dict_arrow" /\ peek.type # "ARROW")
       => (/\ pc' = "raised"
           /\ err'.msg = "Expected token"
           /\ err'.detail = <<"ARROW", peek.type>>
           /\ ret' = None)
    /\ (pc = "dict_sep" /\ peek.type \notin {"COMMA", "DICT_END"})
       => (/\ pc' = "raised"
           /\ err'.msg = "Expected comma or closing bracket"
           /\ ret' = None)
TypeCount(type) == Cardinality({i \in 1..Len(tokens) : tokens[i].type = type})
\* C11, on every token sequence: none with a `[` left open is accepted, and
\* a failed parse has returned nothing.
C11_Closed ==
    /\ pc = "returned" => TypeCount("DICT_START") = TypeCount("DICT_END")
    /\ pc = "raised" => ret = None
\* C11: a dict literal is rejected with a syntax error, and no value is
\* returned, when an entry's key is not an IDENTIFIER, when the key is not
\* followed by ARROW, when the token after an entry's value is neither COMMA
\* nor DICT_END, and when the closing `]` is missing before EOF.
C11_DictSyntaxErrors == [][C11_Step]_vars /\ []C11_Closed
\* [ 1 => 1 ]: raised at the NUMBER standing where a key is expected.
C11_Witness ==
    /\ pc = "raised"
    /\ err.msg = "Expected token"
    /\ err.detail = <<"IDENTIFIER", "NUMBER">>
    /\ stack # <<>>
    /\ Top.fn = "parse_dict"
    /\ Top.acc = <<>>
    /\ tokens[pos + 2].type = "ARROW"

----------------------------------------------------------------------------
(* Claims about the tokens of the lexer. *)

LexFinished == lex_pc \in {"returned", "raised"}

\* C12: every token sequence tokenize returns holds exactly one EOF token, as
\* its last element: also for the empty text, for a text of blanks only and
\* for a text that ends in blanks.
C12_OneEOFLast ==
    lex_pc = "returned"
    => (/\ Len(lex_tokens) >= 1
        /\ lex_tokens[Len(lex_tokens)].type = "EOF"
        /\ \A i \in 1..(Len(lex_tokens) - 1) : lex_tokens[i].type # "EOF")
\* A text of two blanks: EOF alone, at the end of the text.
C12_Witness ==
    /\ lex_pc = "returned"
    /\ lex_text = <<" ", "\n">>
    /\ lex_tokens = <<Token("EOF", None, 2)>>

\* The character a token of this type starts with.
StartsToken(text, t) ==
    LET c == peek_char(text, t.position)
    IN  CASE t.type = "NUMBER" -> c = "-" \/ c = "." \/ isdigit(c)
          [] t.type = "STRING" -> c = "\""
          [] t.type = "CONSTANT_REF" -> c = "#"
          [] t.type \in {"IDENTIFIER", "ARRAY", "LET"} ->
                /\ t.value = PyStr(Slice(text, t.position, t.position + Len(t.value.str)))
                /\ IsIdentStart(c)
          [] t.type = "ARROW" -> c = "=" \/ c = ">"
          [] t.type = "EOF" -> t.position = Len(text)
          [] OTHER -> t.value = PyStr(<<c>>)
\* C13: every token carries as its position the offset of its first character
\* in the text; a STRING token that of its opening quote, escapes or not.
C13_PositionIsFirstCharacter ==
    \A i \in 1..Len(lex_tokens) : StartsToken(lex_text, lex_tokens[i])

\* The text of token i of a returned sequence, without the blanks after it.
TokenText(i) ==
    SelectSeq(Slice(lex_text, lex_tokens[i].position, lex_tokens[i + 1].position),
              LAMBDA c : ~isspace(c))
\* The integer a digit string denotes, read from the left.
RECURSIVE DecimalValue(_, _)
DecimalValue(ds, acc) ==
    IF ds = <<>> THEN acc
    ELSE DecimalValue(Tail(ds), 10 * acc + DigitValue(Head(ds)))
\* The integer denoted by an optional "-" and a digit string.
IntDenoted(s) ==
    IF Head(s) = "-" THEN 0 - DecimalValue(Tail(s), 0) ELSE DecimalValue(s, 0)
\* C14: a numeric literal is lexed as a float exactly when its text holds "."
\* or an exponent marker e / E, and otherwise as the integer its optional sign
\* and digits denote.
C14_NumberClassification ==
    (/\ lex_pc = "returned"
     /\ \A i \in 1..(Len(lex_tokens) - 1) : lex_tokens[i].type = "NUMBER")
    => \A i \in 1..(Len(lex_tokens) - 1) :
          LET v == lex_tokens[i].value
              s == TokenText(i)
          IN  IF HasChar(s, {".", "e", "E"})
              THEN IsKind(v, "float")
              ELSE IsKind(v, "int") /\ v.int = IntDenoted(s)
\* -10 is the integer -10
C14_Witness ==
    /\ lex_pc = "returned"
    /\ lex_text = <<"-", "1", "0">>
    /\ lex_tokens = <<Token("NUMBER", PyInt(0 - 10), 0), Token("EOF", None, 3)>>

\* The shape of the number that starts at offset p: after an optional "-", the
\* digits of the integer part, and after a "." those of the fractional part.
NumberShape(text, p) ==
    LET a == IF peek_char(text, p) = "-" THEN p + 1 ELSE p
        b == skip_digits(text, a)
        c == IF peek_char(text, b) = "." THEN skip_digits(text, b + 1) ELSE b
        frac == IF peek_char(text, b) = "." THEN c - (b + 1) ELSE 0
        marker == peek_char(text, c) \in {"e", "E"}
        d == IF marker /\ peek_char(text, c + 1) \in {"+", "-"} THEN c + 2 ELSE c + 1
    IN  [digits |-> (b - a) + frac,
         marker |-> marker,
         exponent |-> isdigit(peek_char(text, d))]
\* C15, one iteration of tokenize at the start of a number.
C15_Step ==
    (LexInLoop /\ (LexChar \in {"-", "."} \/ isdigit(LexChar)))
    => LET n == NumberShape(lex_text, LexCursor)
       IN  IF n.digits = 0 \/ (n.marker /\ ~n.exponent)
           THEN lex_pc' = "raised" /\ lex_tokens' = lex_tokens
           ELSE /\ lex_pc' = "loop"
                /\ Len(lex_tokens') = Len(lex_tokens) + 1
                /\ lex_tokens'[Len(lex_tokens')].type = "NUMBER"
\* C15: tokenize fails with a lexical error when a number starts but no digit
\* is read in its integer and fractional parts together, and when an exponent
\* marker with its optional sign is not followed by a digit; an integer part
\* with a "." and no fractional digits is a number.
C15_NumberErrors == [][C15_Step]_vars /\ [](lex_pc = "raised" => lex_err # NoError)
\* 1e+ : the exponent has no digits.
C15_Witness ==
    /\ lex_pc = "raised"
    /\ lex_text = <<"1", "e", "+">>
    /\ lex_err.msg = "Invalid exponent in number: expected digits after 'e'"
    /\ lex_tokens = <<>>

\* What the characters between the quotes of a string literal stand for; a
\* body is well formed when no quote in it is unescaped and no backslash is
\* its last character.
RECURSIVE Unescape(_)
Unescape(body) ==
    IF body = <<>> THEN [ok |-> TRUE, str |-> <<>>]
    ELSE IF body[1] = "\"" THEN [ok |-> FALSE, str |-> <<>>]
    ELSE IF body[1] # "\\"
    THEN LET rest == Unescape(Tail(body))
         IN  [ok |-> rest.ok, str |-> <<body[1]>> \o rest.str]
    ELSE IF Len(body) = 1 THEN [ok |-> FALSE, str |-> <<>>]
    ELSE LET rest == Unescape(SubSeq(body, 3, Len(body)))
             this == CASE body[2] = "n" -> <<"\n">>
                       [] body[2] = "t" -> <<"\t">>
                       [] body[2] = "\\" -> <<"\\">>
                       [] body[2] = "\"" -> <<"\"">>
                       [] OTHER -> <<"\\", body[2]>>
         IN  [ok |-> rest.ok, str |-> this \o rest.str]
\* The text is one closed string literal; StringBody is what its quotes enclose.
StringBody == Slice(lex_text, 1, Len(lex_text) - 1)
IsStringLiteral ==
    /\ Len(lex_text) >= 2
    /\ lex_text[1] = "\""
    /\ lex_text[Len(lex_text)] = "\""
    /\ Unescape(StringBody).ok
\* C16: the value of the STRING token of a closed string literal is the
\* characters between its quotes with \n, \t, \\ and \" replaced by newline,
\* tab, backslash and quote, and a backslash before any other character kept
\* with that character; an escaped quote does not end the string.
C16_StringValue ==
    (IsStringLiteral /\ LexFinished)
    => (/\ lex_pc = "returned"
        /\ Len(lex_tokens) = 2
        /\ lex_tokens[1].type = "STRING"
        /\ lex_tokens[1].value = PyStr(Unescape(StringBody).str))
\* Between the quotes an escaped quote and x: the value is quote, x.
C16_Witness ==
    /\ lex_pc = "returned"
    /\ lex_text = <<"\"", "\\", "\"", "x", "\"">>
    /\ lex_tokens[1].value = PyStr(<<"\"", "x">>)

\* The string that opens at offset p (the offset of its quote) is closed.
RECURSIVE ClosesFrom(_, _)
ClosesFrom(text, q) ==
    IF q >= Len(text) THEN FALSE
    ELSE IF text[q + 1] = "\"" THEN TRUE
    ELSE IF text[q + 1] = "\\" THEN ClosesFrom(text, q + 2)
    ELSE ClosesFrom(text, q + 1)
\* C17, one iteration of tokenize at an opening quote or at `#{`.
C17_Step ==
    /\ (LexInLoop /\ LexChar = "\"" /\ ~ClosesFrom(lex_text, LexCursor + 1))
       => (/\ lex_pc' = "raised"
           /\ lex_err'.msg = "Unclosed string"
           /\ lex_tokens' = lex_tokens)
    /\ (/\ LexInLoop /\ LexChar = "#" /\ peek_char(lex_text, LexCursor + 1) = "{"
        /\ \A k \in (LexCursor + 3)..Len(lex_text) : lex_text[k] # "}")
       => (/\ lex_pc' = "raised"
           /\ lex_err'.msg = "Unclosed constant reference"
           /\ lex_tokens' = lex_tokens)
\* C17: the end of the text inside an open string (one whose last character
\* is a backslash included) is the lexical error "Unclosed string", inside
\* `#{` with no later `}` the lexical error "Unclosed constant reference";
\* once raised, tokenize returns no tokens.
C17_UnclosedDelimiters == [][C17_Step]_vars /\ [][lex_pc = "raised" => lex_pc' = "raised"]_vars
\* "x\ : the last character of the open string is a backslash.
C17_Witness ==
    /\ lex_pc = "raised"
    /\ lex_text = <<"\"", "x", "\\">>
    /\ lex_err.msg = "Unclosed string"

\* The maximal run of letters, digits and underscores that starts at offset p.
WordRun(text, p) ==
    LET ends == {q \in p..Len(text) : q = Len(text) \/ ~IsIdentChar(text[q + 1])}
    IN  Slice(text, p, Min(ends))
\* The token of a word: a keyword-set lookup on the whole run.
WordType(run) ==
    IF run = S_array THEN "ARRAY" ELSE IF run = S_let THEN "LET" ELSE "IDENTIFIER"
----------------------------------------------------------------------------
(* main, from the text it read to the value parsed: Lexer(text).tokenize(), *)
(* then Parser(tokens).parse() on the tokens returned.                      *)

\* Most entries of a dict text given to main.
MaxFrontEntries == 2
\* Longest text given to main (in pieces).
MaxFrontLen == 3

\* The ways an entry's key and value are joined in the texts.
ArrowForms == {<<"=", ">">>, <<">">>, <<"=", " ", ">">>, <<"=">>, <<" ", "=", ">", " ">>}
KeyAt(i) == <<"a", "b", "c", "d">>[i]
DigitAt(i) == <<"1", "2", "3", "4">>[i]
\* ki <arrow i> i, ..., kn <arrow n> n
RECURSIVE EntriesText(_, _)
EntriesText(arrows, i) ==
    IF i > Len(arrows) THEN <<>>
    ELSE <<KeyAt(i)>> \o arrows[i] \o <<DigitAt(i)>>
         \o (IF i = Len(arrows) THEN <<>> ELSE <<",">> \o EntriesText(arrows, i + 1))
DictText(arrows) == <<"[">> \o EntriesText(arrows, 1) \o <<"]">>
DictTexts == {DictText(a) : a \in SeqsUpTo(ArrowForms, MaxFrontEntries) \ {<<>>}}

FrontPieces ==
    {S_let \o <<" ", "A", "=">>, <<"1">>, S_array \o <<"(">>, <<")">>,
     <<"#", "{", "A", "}">>, <<" ">>, <<"!">>, <<"\"", "s", "\"">>}
FrontTexts == DictTexts \cup {Flatten(ps) : ps \in SeqsUpTo(FrontPieces, MaxFrontLen)}

\* main: lexer = Lexer(input_text)
FrontInit ==
    /\ lex_text \in FrontTexts
    /\ lex_pos = 0
    /\ lex_tokens = <<>>
    /\ lex_pc = "loop"
    /\ lex_err = NoError
    /\ ParserIdle
    /\ waiting = NoParser
    /\ NoMain

\* A main that hands the parser whatever tokenize had appended when it raised.
MainParser_after_error ==
    /\ lex_pc \in {"returned", "raised"}
    /\ pc = "idle"
    /\ tokens' = IF lex_pc = "returned" THEN lex_tokens
                 ELSE Append(lex_tokens, Token("EOF", None, lex_pos))
    /\ pos' = 0
    /\ constants' = <<>>
    /\ pc' = "parse"
    /\ UNCHANGED <<source, result, stack, val, ret, err>>
    /\ UNCHANGED <<lex_vars, caller_vars>>
\* main: tokens = lexer.tokenize() has returned; parser = Parser(tokens) and the
\* call of parser.parse(). After a lexical error main exits and this never runs.
MainParser ==
    /\ lex_pc = "returned"
    /\ pc = "idle"
    /\ tokens' = lex_tokens
    /\ pos' = 0
    /\ constants' = <<>>
    /\ pc' = "parse"
    /\ UNCHANGED <<source, result, stack, val, ret, err>>
    /\ UNCHANGED <<lex_vars, caller_vars>>

FrontNext ==
    \/ LexNext
    \/ MainParser
    \/ ParserNext

SpecFrontEnd == FrontInit /\ [][FrontNext]_vars

----------------------------------------------------------------------------
(* Claims about the arrow. *)

\* The token appended by the step.
NewToken == lex_tokens'[Len(lex_tokens')]
\* C19, one iteration of tokenize at "=" or ">".
C19_Step ==
    /\ (LexInLoop /\ LexChar = "=")
       => (/\ Len(lex_tokens') = Len(lex_tokens) + 1
           /\ NewToken.position = LexCursor
           /\ IF peek_char(lex_text, LexCursor + 1) = ">"
              THEN NewToken.type = "ARROW" /\ lex_pos' = LexCursor + 2
              ELSE NewToken.type = "EQUALS" /\ lex_pos' = LexCursor + 1)
    /\ (LexInLoop /\ LexChar = ">")
       => (/\ Len(lex_tokens') = Len(lex_tokens) + 1
           /\ NewToken.position = LexCursor
           /\ NewToken.type = "ARROW"
           /\ lex_pos' = LexCursor + 1)
\* The dict of the text of n entries k1 .. 1, ..., kn .. n.
DictOfEntries(n) ==
    PyDict([i \in 1..n |-> [key |-> PyStr(<<KeyAt(i)>>), value |-> PyInt(i)]])
TypesOf(ts) == [i \in 1..Len(ts) |-> ts[i].type]
\* C19, on dict texts: whether an entry is written with `=>` or with a bare
\* `>`, the text parses to the same dict; `= >` is EQUALS, ARROW, which
\* parse_dict rejects.
C19_Dicts ==
    /\ \A arrows \in SeqsUpTo({<<"=", ">">>, <<">">>}, MaxFrontEntries) \ {<<>>} :
          (lex_text = DictText(arrows) /\ Finished)
          => (pc = "returned" /\ ret = DictOfEntries(Len(arrows)))
    /\ (lex_text = DictText(<<<<"=", " ", ">">>>>) /\ lex_pc = "returned")
       => TypesOf(lex_tokens) = <<"DICT_START", "IDENTIFIER", "EQUALS", "ARROW",
                                  "NUMBER", "DICT_END", "EOF">>
    /\ (lex_text = DictText(<<<<"=", " ", ">">>>>) /\ Finished)
       => (pc = "raised" /\ err.detail = <<"ARROW", "EQUALS">>)
\* C19: "=" directly followed by ">" is one ARROW token, any other "=" is
\* EQUALS, and a ">" not taken by an "=" is ARROW too; so `[a > 1]` parses to
\* the dict of `[a => 1]`, and `= >` is EQUALS followed by ARROW.
C19_Arrow == [][C19_Step]_vars /\ []C19_Dicts
\* [a>1,b=>2] parsed to {a: 1, b: 2}
C19_Witness ==
    /\ lex_text = DictText(<<<<">">>, <<"=", ">">>>>)
    /\ pc = "returned"
    /\ ret = DictOfEntries(2)

----------------------------------------------------------------------------
(* Two Parser instances, stepped in any interleaving: the parser variables  *)
(* are those of the instance being stepped, `waiting` is the other one.     *)

\* Most top-level items of each of the two programs.
MaxTwoItems == 2

\* The fields of a Parser instance and the locals of its parse.
Instance(s, t, p, c, r, st, v, at, rt, e) ==
    [source |-> s, tokens |-> t, pos |-> p, constants |-> c, result |-> r,
     stack |-> st, val |-> v, pc |-> at, ret |-> rt, err |-> e]
\* The instance being stepped.
Stepped == Instance(source, tokens, pos, constants, result, stack, val, pc, ret, err)
\* Parser(tokens): `self.constants = {}` gives each instance a table of its own.
NewParser(p) ==
    Instance([program |-> p], RenderProgram(p), 0, <<>>, None, <<>>, None, "parse",
             None, NoError)

\* A table that is one object for all instances (a class attribute).
one_table(mine, others) == others
\* The constant table an instance goes on with when it is stepped again.
own_constants(mine, others) == mine

\* The other instance is stepped from now on.
Switch ==
    /\ waiting # NoParser
    /\ waiting' = Stepped
    /\ source' = waiting.source
    /\ tokens' = waiting.tokens
    /\ pos' = waiting.pos
    /\ constants' = own_constants(waiting.constants, constants)
    /\ result' = waiting.result
    /\ stack' = waiting.stack
    /\ val' = waiting.val
    /\ pc' = waiting.pc
    /\ ret' = waiting.ret
    /\ err' = waiting.err
    /\ UNCHANGED <<lex_vars, main_vars>>

TwoItems ==
    {Item(S_A, ENum(1)),
     Item(S_B, EDict(<<[key |-> <<"a">>, e |-> ERef(S_A)]>>)),
     Item(<<>>, EArray(<<ERef(S_A)>>))}
TwoPrograms == SeqsUpTo(TwoItems, MaxTwoItems)

TwoInit ==
    /\ \E p, q \in TwoPrograms :
          /\ p # q
          /\ source = [program |-> p]
          /\ tokens = RenderProgram(p)
          /\ waiting = NewParser(q)
    /\ ParserStart
    /\ LexIdle
    /\ NoMain

TwoNext ==
    \/ ParserNext
    \/ Switch

SpecTwo == TwoInit /\ [][TwoNext]_vars

----------------------------------------------------------------------------
(* Claims about parser instances. *)

\* The items that cannot be parsed.
Unparsed(items) ==
    {k \in 1..Len(items) :
        \/ Denote(items, k, items[k].e, FALSE) = Undefined
        \/ k \in Roots(items) /\ \E j \in Roots(items) : j < k}
\* What parse does on the program when its instance is the only one: the
\* value it returns or the error it raises, and the constant table it leaves.
Alone(items) ==
    LET f == FirstFailure(items)
        done == IF Unparsed(items) = {} THEN Len(items) ELSE Min(Unparsed(items)) - 1
    IN  [pc |-> IF f.reason = "none" THEN "returned" ELSE "raised",
         ret |-> IF f.reason = "none" THEN Expected(items) ELSE None,
         msg |-> CASE f.reason = "none" -> ""
                   [] f.reason = "multiple" -> "Multiple root values"
                   [] f.reason = "ref" -> "Undefined constant"
                   [] f.reason = "ident" -> "Unexpected identifier in value",
         detail |-> f.name,
         constants |-> FinalConstants(SubSeq(items, 1, done))]
Outcome(i) ==
    [pc |-> i.pc, ret |-> i.ret, msg |-> i.err.msg, detail |-> i.err.detail,
     constants |-> i.constants]
\* C20: of two Parser instances over different token streams, stepped in any
\* interleaving, each ends with the result (value or error) and the constant
\* table it ends with when run alone; a `let` of one never makes a reference
\* of the other resolve.
C20_InstancesIndependent ==
    /\ Finished => Outcome(Stepped) = Alone(source.program)
    /\ (waiting # NoParser /\ waiting.pc \in {"returned", "raised"})
       => Outcome(waiting) = Alone(waiting.source.program)
\* One instance has bound A, the other one's reference to A is undefined.
C20_Witness ==
    /\ pc = "raised"
    /\ err.msg = "Undefined constant"
    /\ waiting # NoParser
    /\ PyStr(err.detail) \in DOMAIN waiting.constants

\* ---------------------------------------------------------------------------
\* The position an error of the parser reports
\* ---------------------------------------------------------------------------

\* The token the parser was examining when it raised "Undefined constant":
\* the reference it has just taken, the one before the cursor.
OffendingRef ==
    tokens[pos]
\* C22: the position reported with "Undefined constant: <name>" is the source
\* offset of the CONSTANT_REF token whose name is not bound, the token the
\* parser was examining when the lookup failed.
C22_UndefinedConstantPosition ==
    (pc = "raised" /\ err.msg = "Undefined constant") =>
        /\ pos >= 1
        /\ OffendingRef.type = "CONSTANT_REF"
        /\ OffendingRef.value = PyStr(err.detail)
        /\ err.position = OffendingRef.position

\* ---------------------------------------------------------------------------
\* Termination of tokenize
\* ---------------------------------------------------------------------------

\* The tokens before the EOF token.
BeforeEOF == SelectSeq(lex_tokens, LAMBDA t : t.type # "EOF")
\* One step of tokenize: the cursor does not move back, and an iteration of the
\* main loop (entered with text left) moves it forward or raises.
C24_Step ==
    /\ lex_pos' >= lex_pos
    /\ LexInLoop => (lex_pos' > lex_pos \/ lex_pc' = "raised")
\* The cursor stays within the text, and no more tokens than the text has
\* characters precede EOF.
C24_Bounded ==
    /\ lex_pos <= Len(lex_text)
    /\ Len(BeforeEOF) <= Len(lex_text)
\* C24: tokenize terminates on every text: the cursor pos never decreases and
\* never exceeds len(text), every iteration of the main loop strictly increases
\* it or raises a lexical error, at most len(text) tokens precede EOF, and the
\* call ends, returning or raising.
C24_TokenizeTerminates ==
    /\ [][C24_Step]_vars
    /\ [](C24_Bounded)
    /\ <>LexFinished
\* A text of MaxMixLen one-character tokens has been tokenized: as many tokens
\* as characters precede EOF, after as many iterations.
C24_Witness ==
    /\ lex_pc = "returned"
    /\ Len(lex_text) = MaxMixLen
    /\ Len(BeforeEOF) = Len(lex_text)
    /\ lex_pos = Len(lex_text)

\* ---------------------------------------------------------------------------
\* Termination of parse
\* ---------------------------------------------------------------------------

\* An order of the parser's statements in which every step that leaves the
\* cursor in place goes strictly down: a return to a caller stands above the
\* heads of the loops of parse, parse_array and parse_dict, these above the
\* statements of their bodies.
PcRank(p) ==
    CASE p = "return" -> 5
      [] p \in {"parse", "array_sep", "dict_sep"} -> 4
      [] p \in {"array_first", "dict_loop"} -> 3
      [] p = "parse_value" -> 2
      [] p \in {"let_name", "let_equals", "array_lparen", "dict_arrow"} -> 1
      [] OTHER -> 0
\* One step of parse: the cursor moves forward, over a token that is not EOF,
\* or it stays and the step goes down the order of statements or raises. A loop
\* head is therefore never reached twice with the same cursor: every iteration
\* consumes a token or raises.
C25_Step ==
    /\ pos' >= pos
    /\ pos' > pos => (pos' = pos + 1 /\ tokens[pos + 1].type # "EOF")
    /\ pos' = pos => (PcRank(pc') < PcRank(pc) \/ pc' = "raised")
\* C25: for every token sequence that ends with EOF, the cursor never moves
\* past the EOF token (pos < len(tokens) in every state, EOF is never
\* consumed), every iteration of the loops of parse, parse_array and parse_dict
\* consumes at least one token or raises, and parse terminates, returning or
\* raising.
C25_ParseTerminates ==
    /\ [][C25_Step]_vars
    /\ [](pos < Len(tokens) /\ tokens[Len(tokens)].type = "EOF")
    /\ <>Finished
\* parse has raised inside an unclosed array or dict with the cursor on the
\* EOF token, every token before it consumed.
C25_Witness ==
    /\ pc = "raised"
    /\ stack # <<>>
    /\ pos = Len(tokens) - 1
    /\ pos >= 2
    /\ peek.type = "EOF"

\* ---------------------------------------------------------------------------
\* Commas in a dict literal
\* ---------------------------------------------------------------------------

\* The token sequence is a dict literal written with a trailing comma.
IsTrailing == IsKind(source, "trailing")
\* The dict literal without the trailing comma, as a program of its own.
Plain == <<Item(<<>>, source.trailing)>>
\* A comma that follows no entry: the token after `[`, or after another comma.
StrayComma ==
    \E i \in 1..(Len(tokens) - 1) :
        /\ tokens[i].type \in {"DICT_START", "COMMA"}
        /\ tokens[i + 1].type = "COMMA"
\* C26: a dict literal accepts one trailing comma after its last entry:
\* [ e1, ..., en, ] with n >= 1 parses to the Dict [ e1, ..., en ] denotes;
\* a token sequence with a comma right after `[` or right after another comma
\* is never accepted: parse raises a Syntax error.
C26_DictTrailingComma ==
    /\ (IsTrailing /\ Finished) =>
            /\ pc = "returned"
            /\ ret = Expected(Plain)
            /\ IsKind(ret, "dict")
    /\ (StrayComma /\ Finished) => pc = "raised"
\* [ a => 1 , b => 2 , a => true , ] was parsed to {a: true, b: 2}.
C26_Witness ==
    /\ IsTrailing
    /\ pc = "returned"
    /\ Len(source.trailing.entries) = 3
    /\ tokens[Len(tokens) - 2].type = "COMMA"
    /\ ret = PyDict(<<[key |-> PyStr(<<"a">>), value |-> PyBool(TRUE)],
                      [key |-> PyStr(<<"b">>), value |-> PyInt(2)]>>)

\* ---------------------------------------------------------------------------
\* main: the command line, from its arguments to its exit
\*   main_pc:  "args"     parser.parse_args()
\*             "read"     sys.stdin.read()
\*             "analyse"  Lexer(input_text).tokenize(), then Parser(tokens).parse():
\*                        where main stands is told by lex_pc and pc
\*             "write"    open(args.output, 'w') and f.write(toml_output)
\*             "written"  the print of the success message
\*             "exited"   the process is over
\* ---------------------------------------------------------------------------

\* The texts on standard input.
MainTexts == FrontTexts

\* to_toml(value)
RECURSIVE to_toml(_)
to_toml(value) ==
    CASE IsKind(value, "dict") ->
            PyDict([i \in 1..Len(value.dict) |->
                       [key |-> value.dict[i].key, value |-> to_toml(value.dict[i].value)]])
      [] IsKind(value, "list") ->
            PyList([i \in 1..Len(value.list) |-> to_toml(value.list[i])])
      [] IsKind(value, "int") \/ IsKind(value, "float") \/ IsKind(value, "str")
         \/ IsKind(value, "bool") ->
            value
      [] OTHER -> PyStr(<<"N", "o", "n", "e">>)
\* The document convert_to_toml builds: the entries of a dict, a list under
\* the key "array", any other value under the key "value".
Document(data) ==
    IF IsKind(data, "dict")
    THEN PyDict([i \in 1..Len(data.dict) |->
                    [key |-> data.dict[i].key, value |-> to_toml(data.dict[i].value)]])
    ELSE IF IsKind(data, "list")
    THEN PyDict(<<[key |-> PyStr(S_array), value |-> to_toml(data)]>>)
    ELSE PyDict(<<[key |-> PyStr(<<"v", "a", "l", "u", "e">>), value |-> to_toml(data)]>>)
\* convert_to_toml(data): the text tomlkit.dumps gives for the document.
convert_to_toml(data) == [toml |-> Document(data)]

\* sys.stdout of main is not used; every message goes to standard error and
\* is kept by its prefix.
MainPrint(line) == stderr' = Append(stderr, line)
\* print(diagnostic, file=sys.stderr); sys.exit(status)
MainExit(line, status) ==
    /\ MainPrint(line)
    /\ exit_status' = status
    /\ main_pc' = "exited"

MainInit ==
    /\ lex_text = <<>>
    /\ lex_pos = 0
    /\ lex_tokens = <<>>
    /\ lex_pc = "idle"
    /\ lex_err = NoError
    /\ ParserIdle
    /\ waiting = NoParser
    /\ main_pc = "args"
    /\ stderr = <<>>
    /\ exit_status = -1
    /\ toml_output = None
    /\ output_file = NoFile

\* args = parser.parse_args(): without -o/--output argparse prints its usage
\* and exits with status 2.
MainArgs ==
    /\ main_pc = "args"
    /\ \/ /\ main_pc' = "read"
          /\ UNCHANGED <<stderr, exit_status>>
       \/ MainExit("usage", 2)
    /\ UNCHANGED <<toml_output, output_file, waiting>>
    /\ UNCHANGED <<lex_vars, parser_vars>>

\* input_text = sys.stdin.read(), then lexer = Lexer(input_text) and the call
\* of lexer.tokenize(); or the read raises.
MainRead ==
    /\ main_pc = "read"
    /\ \/ /\ lex_text' \in MainTexts
          /\ lex_pc' = "loop"
          /\ main_pc' = "analyse"
          /\ UNCHANGED <<lex_pos, lex_tokens, lex_err, stderr, exit_status>>
       \/ /\ MainExit("Error reading input", 1)
          /\ UNCHANGED lex_vars
    /\ UNCHANGED <<toml_output, output_file, waiting>>
    /\ UNCHANGED parser_vars

\* except SyntaxError around tokenize.
MainLexError ==
    /\ main_pc = "analyse"
    /\ lex_pc = "raised"
    /\ MainExit("Lexical error", 1)
    /\ UNCHANGED <<toml_output, output_file, waiting>>
    /\ UNCHANGED <<lex_vars, parser_vars>>

\* An except clause around parse that prints and does not exit: main goes on
\* to convert_to_toml(ast) with `ast` unbound, which the next except catches.
MainSyntaxError_no_exit ==
    /\ main_pc = "analyse"
    /\ pc = "raised"
    /\ stderr' = stderr \o <<"Syntax error", "Conversion error">>
    /\ exit_status' = 1
    /\ main_pc' = "exited"
    /\ UNCHANGED <<toml_output, output_file, waiting>>
    /\ UNCHANGED <<lex_vars, parser_vars>>
\* except SyntaxError around parse.
MainSyntaxError ==
    /\ main_pc = "analyse"
    /\ pc = "raised"
    /\ MainExit("Syntax error", 1)
    /\ UNCHANGED <<toml_output, output_file, waiting>>
    /\ UNCHANGED <<lex_vars, parser_vars>>

\* toml_output = convert_to_toml(ast), or tomlkit raises.
MainConvert ==
    /\ main_pc = "analyse"
    /\ pc = "returned"
    /\ \/ /\ toml_output' = convert_to_toml(ret)
          /\ main_pc' = "write"
          /\ UNCHANGED <<stderr, exit_status>>
       \/ /\ MainExit("Conversion error", 1)
          /\ UNCHANGED toml_output
    /\ UNCHANGED <<output_file, waiting>>
    /\ UNCHANGED <<lex_vars, parser_vars>>

\* with open(args.output, 'w') as f: f.write(toml_output); when open or write
\* raises, the file is absent or was left cut short.
MainWrite ==
    /\ main_pc = "write"
    /\ \/ /\ output_file' = [content |-> toml_output]
          /\ main_pc' = "written"
          /\ UNCHANGED <<stderr, exit_status>>
       \/ /\ output_file' \in {NoFile, [partial |-> toml_output]}
          /\ MainExit("Error writing output file", 1)
    /\ UNCHANGED <<toml_output, waiting>>
    /\ UNCHANGED <<lex_vars, parser_vars>>

\* The last line of main, and its return: the process exits with status 0.
MainSuccess ==
    /\ main_pc = "written"
    /\ MainExit("Successfully converted", 0)
    /\ UNCHANGED <<toml_output, output_file, waiting>>
    /\ UNCHANGED <<lex_vars, parser_vars>>

MainNext ==
    \/ MainArgs
    \/ MainRead
    \/ LexNext
    \/ MainLexError
    \/ MainParser
    \/ ParserNext
    \/ MainSyntaxError
    \/ MainConvert
    \/ MainWrite
    \/ MainSuccess

SpecMain == MainInit /\ [][MainNext]_vars

\* ---------------------------------------------------------------------------
\* Claims about main
\* ---------------------------------------------------------------------------

Printed(line) == \E i \in 1..Len(stderr) : stderr[i] = line
\* tokenize, parse and convert have all succeeded.
AllSucceeded ==
    /\ lex_pc = "returned"
    /\ pc = "returned"
    /\ toml_output = convert_to_toml(ret)
\* One step of main: the file at the output path changes only in the write
\* stage, entered after the three stages before it succeeded.
C21_Step ==
    output_file' # output_file => (main_pc = "write" /\ AllSucceeded)
\* What holds of main in every state.
C21_Stages ==
    \* nothing is in the file unless all three stages succeeded
    /\ output_file # NoFile => AllSucceeded
    \* a stage that raised: no later stage has run, nothing was written
    /\ lex_pc = "raised" => (pc = "idle" /\ toml_output = None /\ output_file = NoFile)
    /\ pc = "raised" => (toml_output = None /\ output_file = NoFile)
    /\ Printed("Conversion error") => (toml_output = None /\ output_file = NoFile)
    \* and once main is over its one diagnostic was printed, with status 1
    /\ (main_pc = "exited" /\ lex_pc = "raised")
       => (stderr = <<"Lexical error">> /\ exit_status = 1)
    /\ (main_pc = "exited" /\ pc = "raised")
       => (stderr = <<"Syntax error">> /\ exit_status = 1)
    /\ (main_pc = "exited" /\ pc = "returned" /\ toml_output = None)
       => (stderr = <<"Conversion error">> /\ exit_status = 1)
    \* the success message follows the write
    /\ Printed("Successfully converted")
       => (/\ output_file = [content |-> toml_output]
           /\ AllSucceeded
           /\ stderr = <<"Successfully converted">>
           /\ exit_status = 0)
\* C21: in main (read stdin, tokenize, parse, convert, write) the output file
\* is written only after tokenize, parse and convert have all succeeded; when
\* one of these stages raises its error main prints that stage's diagnostic
\* (Lexical error, Syntax error, Conversion error), exits with status 1, runs
\* no later stage and writes nothing; the success message is printed only
\* after the write succeeded.
C21_PipelineOrder ==
    /\ [][C21_Step]_vars
    /\ [](C21_Stages)
\* main has exited with status 0 after writing the converted dict of a text
\* with two entries.
C21_Witness ==
    /\ main_pc = "exited"
    /\ exit_status = 0
    /\ stderr = <<"Successfully converted">>
    /\ IsKind(ret, "dict") /\ Len(ret.dict) = 2
    /\ output_file = [content |-> convert_to_toml(ret)]

\* The tokens appended before tokenize raised begin with one no program can
\* begin with: the text breaks the grammar before the place of its lexical
\* error.
SyntaxViolationFirst ==
    /\ lex_pc = "raised"
    /\ lex_tokens # <<>>
    /\ lex_tokens[1].type \in {"RPAREN", "DICT_END", "COMMA", "ARROW", "EQUALS"}
    /\ lex_tokens[1].position < lex_err.position
\* C23: the whole text is tokenized before parsing starts: the parser runs
\* only on the tokens of a tokenize that returned, so for a text with a
\* lexical error anywhere, also after a place where it breaks the grammar, the
\* parser is never run and main reports a Lexical error, never a Syntax error.
C23_LexicalErrorFirst ==
    /\ pc # "idle" => (lex_pc = "returned" /\ tokens = lex_tokens)
    /\ lex_pc = "raised" => (pc = "idle" /\ err = NoError /\ ~Printed("Syntax error"))
    /\ (lex_pc = "raised" /\ main_pc = "exited") => Printed("Lexical error")
\* main has exited on the lexical error of a text like `)!`, whose first token
\* no program can begin with.
C23_Witness ==
    /\ SyntaxViolationFirst
    /\ main_pc = "exited"
    /\ stderr = <<"Lexical error">>
    /\ pc = "idle"

====
